---- MODULE Spec2Model ----
\* Focus timer of web/src/pages/Pomodoro/index.tsx: the FocusMode session
\* state machine (timerMode, running, completedSessions, secondsLeft), the
\* 1-second interval that drives it, and the preset it reads from storage;
\* the picture-in-picture window that mirrors the timer, the messages between
\* the two, and the page's switch between its home, focus and ambient modes.
EXTENDS Integers, Sequences, FiniteSets, TLC

\* ---------------------------------------------------------------- bounds
\* completedSessions and the number of expired focus countdowns are capped.
MaxCompleted == 3
\* longBreakInterval of the user-made presets ranges over 1..MaxInterval.
MaxInterval == 2
\* Picture-in-picture windows opened in one behaviour.
MaxWindows == 2
\* Messages in flight in one direction between the page and the mirror.
MaxInFlight == 1
\* Rounds of the two 1-second countdown intervals in one behaviour that
\* follows the mirror.
MaxRounds == 2
\* Requests of the settings component to the user store awaiting their answer.
MaxPending == 2
\* Values of the millisecond clock read by the settings component.
MaxClock == 2
\* Steps of the settings component in one behaviour.
MaxSteps == 5

\* ---------------------------------------------------------------- presets
TimerModes == {"focus", "short-break", "long-break"}

\* The built-in catalog, in the order of the source.
getDefaultPresets ==
  << [id |-> "pomodoro-classic", type |-> "pomodoro", focusDuration |-> 25,
      shortBreakDuration |-> 5, longBreakDuration |-> 15, longBreakInterval |-> 4,
      autoStartBreaks |-> TRUE, autoStartFocus |-> TRUE, isDefault |-> TRUE],
     [id |-> "pomodoro-short", type |-> "pomodoro", focusDuration |-> 15,
      shortBreakDuration |-> 3, longBreakDuration |-> 10, longBreakInterval |-> 4,
      autoStartBreaks |-> TRUE, autoStartFocus |-> TRUE, isDefault |-> TRUE],
     [id |-> "52-17-rule", type |-> "pomodoro", focusDuration |-> 52,
      shortBreakDuration |-> 17, longBreakDuration |-> 17, longBreakInterval |-> 1,
      autoStartBreaks |-> TRUE, autoStartFocus |-> TRUE, isDefault |-> TRUE],
     [id |-> "animedoro", type |-> "pomodoro", focusDuration |-> 90,
      shortBreakDuration |-> 15, longBreakDuration |-> 30, longBreakInterval |-> 2,
      autoStartBreaks |-> TRUE, autoStartFocus |-> TRUE, isDefault |-> TRUE],
     [id |-> "stopwatch", type |-> "stopwatch", focusDuration |-> 0,
      shortBreakDuration |-> 5, longBreakDuration |-> 15, longBreakInterval |-> 4,
      autoStartBreaks |-> FALSE, autoStartFocus |-> FALSE, isDefault |-> TRUE],
     [id |-> "countdown-60", type |-> "countdown", focusDuration |-> 60,
      shortBreakDuration |-> 5, longBreakDuration |-> 15, longBreakInterval |-> 1,
      autoStartBreaks |-> FALSE, autoStartFocus |-> FALSE, isDefault |-> TRUE],
     [id |-> "countdown-30", type |-> "countdown", focusDuration |-> 30,
      shortBreakDuration |-> 5, longBreakDuration |-> 10, longBreakInterval |-> 1,
      autoStartBreaks |-> FALSE, autoStartFocus |-> FALSE, isDefault |-> TRUE] >>

\* Presets a user can make with the preset editor (type custom, minutes >= 1):
\* the shortest durations, every interval up to the bound, every auto-start mix.
CustomPresets ==
  { [id |-> "custom-1", type |-> "custom", focusDuration |-> 1,
     shortBreakDuration |-> 1, longBreakDuration |-> 2, longBreakInterval |-> k,
     autoStartBreaks |-> ab, autoStartFocus |-> af, isDefault |-> FALSE] :
       k \in 1..MaxInterval, ab \in BOOLEAN, af \in BOOLEAN }

\* What localStorage may hold under the key pomodoro:timerSettings: nothing
\* (the empty sequence) or one settings record.
StoredSettings ==
  { << >> }
  \cup { << [selectedPreset |-> s, presets |-> getDefaultPresets] >> :
           s \in {"pomodoro-classic", "stopwatch", "custom-0"} }
  \cup { << [selectedPreset |-> "custom-1", presets |-> Append(getDefaultPresets, p)] >> :
           p \in CustomPresets }

\* The stored settings of the runs that follow the mirror: a user-made preset
\* is selected, with a long break after every focus countdown and nothing
\* started automatically.
MirrorStoredSettings ==
  { << [selectedPreset |-> "custom-1", presets |-> Append(getDefaultPresets, p)] >> :
           p \in { q \in CustomPresets : /\ q.longBreakInterval = 1
                                           /\ ~q.autoStartBreaks
                                           /\ ~q.autoStartFocus } }

\* Messages. Every message carries the same fields; a pip-update uses seconds,
\* running and mode, a pip-control uses action.
pipUpdate(s, r, m) ==
  [type |-> "pip-update", action |-> "", seconds |-> s, running |-> r, mode |-> m]

pipControl(a) ==
  [type |-> "pip-control", action |-> a, seconds |-> 0, running |-> FALSE, mode |-> ""]

\* Messages that other scripts may post to either window.
ForeignMessages ==
  { pipControl(a) : a \in {"start", "stop", "reset", "skip", "switch-mode"} }
  \cup { [type |-> "other", action |-> "start", seconds |-> 0, running |-> TRUE,
          mode |-> "focus"] }

\* The name under which the history records that the page's listener
\* handled msg.
received(msg) == msg.type \o ":" \o msg.action

\* The mirror's script variables when no window is open. intervalId tells
\* whether the variable holds an interval's id; loops counts the intervals of
\* the window that setInterval made and clearInterval has not cleared.
NoMirror ==
  [currentSeconds |-> 0, isRunning |-> FALSE, intervalId |-> FALSE, initialDuration |-> 0,
   loops |-> 0]

\* ---------------------------------------------------------------- state
VARIABLES
  storage,            \* localStorage item pomodoro:timerSettings (<<>> = absent)
  timerMode,          \* useState<TimerMode>
  running,            \* useState(false)
  completedSessions,  \* useState(0)
  secondsLeft,        \* useState(getTimerDuration('focus'))
  ticker,             \* live setInterval callbacks, each with the timerMode and
                      \* completedSessions its handleTimerComplete closed over
  lastOp,             \* history: the operation that produced this state
  focusExpired,       \* history: focus countdowns that reached zero by the clock
                      \* since mount; -1 once skip() or switchMode() was used
  pageMode,           \* PomodoroPage mode: FocusMode is mounted iff "focus"
  isPipActive,        \* PomodoroPage isPipActive
  pipWindowRef,       \* FocusMode pipWindowRef.current: a window id, 0 = null
  pipWindow,          \* the id of the open picture-in-picture window, 0 = none
  pipCount,           \* windows opened so far (ids are 1..pipCount)
  owned,              \* windows opened by the mounted FocusMode instance
  mirror,             \* script variables of the open window
  toMirror,           \* messages posted to the open window, not yet handled
  toPrimary,          \* messages posted by the mirror, not yet handled
  pagehide,           \* closed windows whose pagehide/unload is still to fire
  rounds,             \* history: countdown rounds so far, the page's and the
                      \* mirror's
  userPomodoroSetting, \* userStore.state.userPomodoroSetting (<<>> = undefined)
  localSelectedPreset, \* PomodoroSection useState('pomodoro-classic')
  isEditing,          \* PomodoroSection useState(false)
  editingPreset,      \* PomodoroSection useState(null) (<<>> = null)
  isOperationLoading, \* PomodoroSection useState(false)
  pending,            \* updateUserPomodoroSetting calls not yet answered, each
                      \* with what its caller closed over
  now,                \* Date.now()
  steps,              \* history: steps of the settings component so far
  ambient             \* AmbientMode: running, secondsLeft (<< >> = NaN) and
                      \* ref, whether ref.current holds a live interval

vars == << storage, timerMode, running, completedSessions, secondsLeft,
           ticker, lastOp, focusExpired, pageMode, isPipActive, pipWindowRef,
           pipWindow, pipCount, owned, mirror, toMirror, toPrimary, pagehide,
           rounds, userPomodoroSetting, localSelectedPreset, isEditing,
           editingPreset, isOperationLoading, pending, now, steps, ambient >>

settingsState ==
  << userPomodoroSetting, localSelectedPreset, isEditing, editingPreset,
     isOperationLoading, pending, now, steps >>

\* Array.prototype.find: the first element with the id, as a set of 0 or 1.
find(presets, id) ==
  LET hits == { i \in DOMAIN presets : presets[i].id = id }
  IN  IF hits = {} THEN {}
      ELSE { presets[CHOOSE i \in hits : \A j \in hits : i <= j] }

\* The preset selected in storage, or nothing (null).
getCurrentPreset ==
  IF storage = << >> THEN {}
  ELSE IF "presets" \notin DOMAIN storage[1] THEN {}
  ELSE IF "selectedPreset" \notin DOMAIN storage[1] THEN {}
  ELSE find(storage[1].presets, storage[1].selectedPreset)

presetDuration(p, mode) ==
  CASE mode = "focus"       -> p.focusDuration * 60
    [] mode = "short-break" -> p.shortBreakDuration * 60
    [] mode = "long-break"  -> p.longBreakDuration * 60

\* Mutation of getTimerDuration: every mode falls through to the default arm.
getTimerDurationDefaultArm(mode) ==
  IF getCurrentPreset = {}
  THEN 25 * 60
  ELSE presetDuration(CHOOSE p \in getCurrentPreset : TRUE, "focus")

getTimerDuration(mode) ==
  IF getCurrentPreset = {}
  THEN CASE mode = "focus"       -> 25 * 60
         [] mode = "short-break" -> 5 * 60
         [] mode = "long-break"  -> 15 * 60
  ELSE presetDuration(CHOOSE p \in getCurrentPreset : TRUE, mode)

\* a % b === 0 of JavaScript for a >= 0: the remainder has the sign of a, and
\* a % 0 is NaN, which is not 0.
remainderIsZero(a, b) ==
  IF b = 0 THEN FALSE
  ELSE a % (IF b < 0 THEN -b ELSE b) = 0

\* handleTimerComplete as seen by a closure that captured timerMode = m and
\* completedSessions = c. applied = FALSE is the early return on a null preset.
\* In the break branch completedSessions is not written.
handleTimerComplete(m, c) ==
  IF getCurrentPreset = {}
  THEN [applied |-> FALSE, timerMode |-> timerMode,
        completedSessions |-> completedSessions,
        secondsLeft |-> secondsLeft, running |-> FALSE]
  ELSE LET preset == CHOOSE p \in getCurrentPreset : TRUE
       IN  IF m = "focus"
           THEN LET newCompletedSessions == c + 1
                    isLongBreak == remainderIsZero(newCompletedSessions,
                                                   preset.longBreakInterval)
                    breakMode == IF isLongBreak THEN "long-break" ELSE "short-break"
                IN  [applied |-> TRUE, timerMode |-> breakMode,
                     completedSessions |-> newCompletedSessions,
                     secondsLeft |-> getTimerDuration(breakMode),
                     running |-> preset.autoStartBreaks]
           ELSE [applied |-> TRUE, timerMode |-> "focus",
                 completedSessions |-> completedSessions,
                 secondsLeft |-> getTimerDuration("focus"),
                 running |-> preset.autoStartFocus]

\* The effect keyed on [running]: it runs only when running changed; its
\* cleanup clears the interval held in ref.current, then a new interval is
\* created when running is true, closing over the state of that render.
\* Mutation of tickEffect: the cleanup does not clear the interval.
tickEffectNoCleanup(newRunning, newMode, newCompleted) ==
  IF newRunning
  THEN Append(ticker, [timerMode |-> newMode, completedSessions |-> newCompleted])
  ELSE ticker

tickEffect(newRunning, newMode, newCompleted) ==
  IF newRunning = running THEN ticker
  ELSE LET cleaned == IF ticker = << >> THEN ticker
                      ELSE SubSeq(ticker, 1, Len(ticker) - 1)
       IN  IF newRunning
           THEN Append(cleaned, [timerMode |-> newMode, completedSessions |-> newCompleted])
           ELSE cleaned

\* AmbientMode's state while it is not mounted.
NoAmbient == [running |-> FALSE, secondsLeft |-> << 0 >>, ref |-> FALSE]

\* The page with no picture-in-picture window and FocusMode mounted (so
\* AmbientMode is not).
PipInit ==
  /\ pageMode = "focus"
  /\ ambient = NoAmbient
  /\ isPipActive = FALSE
  /\ pipWindowRef = 0
  /\ pipWindow = 0
  /\ pipCount = 0
  /\ owned = {}
  /\ mirror = NoMirror
  /\ toMirror = << >>
  /\ toPrimary = << >>
  /\ pagehide = {}
  /\ rounds = 0

\* PomodoroSection just mounted, nothing loaded, no request sent.
PomodoroSectionInit ==
  /\ userPomodoroSetting = << >>
  /\ localSelectedPreset = "pomodoro-classic"
  /\ isEditing = FALSE
  /\ editingPreset = << >>
  /\ isOperationLoading = FALSE
  /\ pending = << >>
  /\ now = 1
  /\ steps = 0

\* FocusMode just mounted.
FocusModeInit ==
  /\ timerMode = "focus"
  /\ running = FALSE
  /\ completedSessions = 0
  /\ secondsLeft = getTimerDuration("focus")
  /\ ticker = << >>
  /\ lastOp = "mount"
  /\ focusExpired = 0

Init ==
  /\ storage \in StoredSettings
  /\ FocusModeInit
  /\ PipInit
  /\ PomodoroSectionInit

\* start(), stop() and reset() are called by the buttons (op names the
\* button) and by the message listener. reset() reads timerMode from the
\* render that made it: m is that value.
startAs(op) ==
  /\ running' = TRUE
  /\ ticker' = tickEffect(TRUE, timerMode, completedSessions)
  /\ lastOp' = op
  /\ UNCHANGED << storage, timerMode, completedSessions, secondsLeft, focusExpired >>

stopAs(op) ==
  /\ running' = FALSE
  /\ ticker' = tickEffect(FALSE, timerMode, completedSessions)
  /\ lastOp' = op
  /\ UNCHANGED << storage, timerMode, completedSessions, secondsLeft, focusExpired >>

resetAs(op, m) ==
  /\ running' = FALSE
  /\ secondsLeft' = getTimerDuration(m)
  /\ ticker' = tickEffect(FALSE, timerMode, completedSessions)
  /\ lastOp' = op
  /\ UNCHANGED << storage, timerMode, completedSessions, focusExpired >>

start == startAs("start")

stop == stopAs("stop")

reset == resetAs("reset", timerMode)

\* skip() runs in the current render: handleTimerComplete sees the current
\* timerMode and completedSessions. secondsLeft is written only when a preset
\* was found.
skip ==
  LET h == handleTimerComplete(timerMode, completedSessions)
  IN  /\ h.completedSessions <= MaxCompleted
      /\ timerMode' = h.timerMode
      /\ completedSessions' = h.completedSessions
      /\ secondsLeft' = h.secondsLeft
      /\ running' = h.running
      /\ ticker' = tickEffect(h.running, h.timerMode, h.completedSessions)
      /\ lastOp' = "skip"
      /\ focusExpired' = -1
      /\ UNCHANGED storage

\* Mutation of switchMode: the completed-session count is never cleared.
switchModeKeepCount(newMode) ==
  /\ running' = FALSE
  /\ timerMode' = newMode
  /\ secondsLeft' = getTimerDuration(newMode)
  /\ ticker' = tickEffect(FALSE, newMode, completedSessions)
  /\ lastOp' = "switchMode"
  /\ focusExpired' = -1
  /\ UNCHANGED << storage, completedSessions >>

switchMode(newMode) ==
  /\ running' = FALSE
  /\ timerMode' = newMode
  /\ secondsLeft' = getTimerDuration(newMode)
  /\ completedSessions' = IF newMode = "focus" THEN 0 ELSE completedSessions
  /\ ticker' = tickEffect(FALSE, newMode, completedSessions')
  /\ lastOp' = "switchMode"
  /\ focusExpired' = -1
  /\ UNCHANGED storage

\* What the interval callback leaves behind when it runs with s <= 1, for a
\* closure that captured timerMode = m and completedSessions = c:
\* setRunning(false), then the captured handleTimerComplete, then the updater
\* returns 0. The updater both queues setSecondsLeft(duration) and returns 0;
\* React applies the queued value last when it runs the updater while
\* rendering, and the returned 0 last when it runs the updater eagerly at
\* dispatch, so either value can be the outcome.
expiryOutcomes(m, c) ==
  LET h == handleTimerComplete(m, c)
  IN  { [timerMode |-> h.timerMode, completedSessions |-> h.completedSessions,
         running |-> h.running, secondsLeft |-> s] :
          s \in (IF h.applied THEN {h.secondsLeft, 0} ELSE {0}) }

\* One firing of the interval callback i: setSecondsLeft(s => ...).
\* s >= 2: one second less. s <= 1: the timer finished.
tick(i) ==
  /\ i \in DOMAIN ticker
  /\ IF secondsLeft > 1
     THEN /\ secondsLeft' = secondsLeft - 1
          /\ lastOp' = "tick"
          /\ UNCHANGED << storage, timerMode, running, completedSessions,
                          ticker, focusExpired >>
     ELSE \E o \in expiryOutcomes(ticker[i].timerMode, ticker[i].completedSessions) :
              /\ o.completedSessions <= MaxCompleted
              /\ timerMode = "focus" => focusExpired < MaxCompleted
              /\ timerMode' = o.timerMode
              /\ completedSessions' = o.completedSessions
              /\ running' = o.running
              /\ secondsLeft' = o.secondsLeft
              /\ ticker' = tickEffect(o.running, o.timerMode, o.completedSessions)
              /\ lastOp' = "expire"
              /\ focusExpired' = IF timerMode = "focus" /\ focusExpired >= 0
                                 THEN focusExpired + 1 ELSE focusExpired
              /\ UNCHANGED storage

\* window.closed of the window a handle names.
closed(h) == h # pipWindow

\* Mutation of pushEffect: the effect does not look at window.closed.
pushEffectIgnoresClosed ==
  IF << secondsLeft', running', timerMode' >> = << secondsLeft, running, timerMode >>
  THEN UNCHANGED << isPipActive, pipWindowRef, toMirror >>
  ELSE IF pipWindowRef # 0
       THEN /\ Len(toMirror) < MaxInFlight
            /\ toMirror' = Append(toMirror, pipUpdate(secondsLeft', running', timerMode'))
            /\ UNCHANGED << isPipActive, pipWindowRef >>
       ELSE UNCHANGED << isPipActive, pipWindowRef, toMirror >>

\* Mutation of pushEffect: running is missing from the effect's dependencies.
pushEffectWithoutRunning ==
  IF << secondsLeft', timerMode' >> = << secondsLeft, timerMode >>
  THEN UNCHANGED << isPipActive, pipWindowRef, toMirror >>
  ELSE IF pipWindowRef # 0 /\ ~closed(pipWindowRef)
       THEN /\ Len(toMirror) < MaxInFlight
            /\ toMirror' = Append(toMirror, pipUpdate(secondsLeft', running', timerMode'))
            /\ UNCHANGED << isPipActive, pipWindowRef >>
       ELSE IF pipWindowRef # 0 /\ closed(pipWindowRef) /\ isPipActive
            THEN /\ isPipActive' = FALSE
                 /\ pipWindowRef' = 0
                 /\ UNCHANGED toMirror
            ELSE UNCHANGED << isPipActive, pipWindowRef, toMirror >>

\* The effect keyed on [secondsLeft, running, timerMode, isPipActive], after
\* a step of FocusMode that leaves isPipActive alone: post the new state to
\* an open window; with a closed window and the flag still set, clean up.
pushEffect ==
  IF << secondsLeft', running', timerMode' >> = << secondsLeft, running, timerMode >>
  THEN UNCHANGED << isPipActive, pipWindowRef, toMirror >>
  ELSE IF pipWindowRef # 0 /\ ~closed(pipWindowRef)
       THEN /\ Len(toMirror) < MaxInFlight
            /\ toMirror' = Append(toMirror, pipUpdate(secondsLeft', running', timerMode'))
            /\ UNCHANGED << isPipActive, pipWindowRef >>
       ELSE IF pipWindowRef # 0 /\ closed(pipWindowRef) /\ isPipActive
            THEN /\ isPipActive' = FALSE
                 /\ pipWindowRef' = 0
                 /\ UNCHANGED toMirror
            ELSE UNCHANGED << isPipActive, pipWindowRef, toMirror >>

\* A step of the mounted FocusMode that the user causes: the handler A, then
\* the push effect; the mirror and the page mode stay.
Primary(A) ==
  /\ pageMode = "focus"
  /\ A
  /\ pushEffect
  /\ UNCHANGED << pageMode, pipWindow, pipCount, owned, mirror, toPrimary, pagehide,
                  rounds >>
  /\ UNCHANGED << settingsState, ambient >>

Next ==
  \/ Primary(start)
  \/ Primary(stop)
  \/ Primary(reset)
  \/ Primary(skip)
  \/ \E newMode \in TimerModes : Primary(switchMode(newMode))
  \/ \E i \in DOMAIN ticker : Primary(tick(i))

Spec == Init /\ [][Next]_vars

\* ---------------------------------------------------------------------------
\* The picture-in-picture mirror.

sessionState ==
  << storage, timerMode, running, completedSessions, secondsLeft, ticker, focusExpired >>

\* The mirror's script functions, on its variables mir.
startTimer(mir) ==
  IF mir.isRunning THEN mir
  ELSE [mir EXCEPT !.isRunning = TRUE, !.intervalId = TRUE, !.loops = mir.loops + 1]

\* Mutation of stopTimer: the interval is left alive.
stopTimerKeepsLoop(mir) == [mir EXCEPT !.isRunning = FALSE]

\* clearInterval ends the one interval whose id the variable holds.
stopTimer(mir) ==
  IF mir.intervalId
  THEN [mir EXCEPT !.isRunning = FALSE, !.intervalId = FALSE, !.loops = mir.loops - 1]
  ELSE [mir EXCEPT !.isRunning = FALSE]

resetTimer(mir) ==
  [stopTimer(mir) EXCEPT !.currentSeconds = mir.initialDuration]

\* Mutation of intervalTimer: the count is not floored and the interval
\* goes on at 0.
intervalTimerNoFloor(mir) == [mir EXCEPT !.currentSeconds = mir.currentSeconds - 1]

\* One round of the mirror's interval.
intervalTimer(mir) ==
  LET m1 == [mir EXCEPT !.currentSeconds =
                          IF mir.currentSeconds - 1 > 0 THEN mir.currentSeconds - 1 ELSE 0]
  IN  IF m1.currentSeconds = 0 THEN stopTimer(m1) ELSE m1

\* Mutation of mirrorOnMessage: after overwriting its variables the listener
\* starts a loop when none exists and stops the one that exists.
mirrorOnMessageToggle(mir, msg) ==
  IF msg.type = "pip-update"
  THEN LET m1 == [mir EXCEPT !.currentSeconds = msg.seconds, !.isRunning = msg.running]
       IN  IF ~m1.intervalId
           THEN [m1 EXCEPT !.isRunning = TRUE, !.intervalId = TRUE, !.loops = m1.loops + 1]
           ELSE stopTimer(m1)
  ELSE mir

\* The mirror's message listener.
mirrorOnMessage(mir, msg) ==
  IF msg.type = "pip-update"
  THEN LET m1 == [mir EXCEPT !.currentSeconds = msg.seconds, !.isRunning = msg.running]
       IN  IF m1.isRunning /\ ~m1.intervalId THEN startTimer(m1)
           ELSE IF ~m1.isRunning /\ m1.intervalId THEN stopTimer(m1)
           ELSE m1
  ELSE mir

\* The page written into a new window by updatePipWindow.
updatePipWindow ==
  [currentSeconds |-> secondsLeft, isRunning |-> running, intervalId |-> FALSE,
   initialDuration |-> getTimerDuration(timerMode), loops |-> 0]

\* The push effect when a step changed isPipActive or left FocusMode's state
\* alone: ref is the handle after the step and changed tells whether a
\* dependency of the effect changed.
pushAfter(ref, changed) ==
  LET kept == IF pipWindow' = pipWindow THEN toMirror ELSE << >>
  IN  IF changed /\ ref # 0 /\ ref = pipWindow'
      THEN /\ Len(kept) < MaxInFlight
           /\ toMirror' = Append(kept, pipUpdate(secondsLeft, running, timerMode))
      ELSE toMirror' = kept

\* Mutation of togglePip: the flag is set before the browser is asked, and
\* stays set when the request fails.
togglePipFlagFirst(outcome) ==
  /\ pageMode = "focus"
  /\ UNCHANGED sessionState
  /\ UNCHANGED << pageMode, toPrimary, rounds >>
  /\ IF isPipActive /\ pipWindowRef # 0
     THEN /\ outcome = "close"
          /\ pipWindow' = (IF closed(pipWindowRef) THEN pipWindow ELSE 0)
          /\ pagehide' = (IF closed(pipWindowRef) THEN pagehide
                          ELSE pagehide \cup {pipWindowRef})
          /\ mirror' = (IF closed(pipWindowRef) THEN mirror ELSE NoMirror)
          /\ isPipActive' = FALSE
          /\ pipWindowRef' = 0
          /\ pushAfter(0, TRUE)
          /\ lastOp' = "pip-close"
          /\ UNCHANGED << pipCount, owned >>
     ELSE \/ /\ outcome \in {"unsupported", "rejected"}
             /\ lastOp' = "pip-open-failed"
             /\ isPipActive' = TRUE
             /\ UNCHANGED << pipWindowRef, pipWindow, pipCount, owned,
                             mirror, toMirror, pagehide >>
          \/ /\ outcome = "opened"
             /\ pipCount < MaxWindows
             /\ pipCount' = pipCount + 1
             /\ pipWindow' = pipCount + 1
             /\ pagehide' = (IF pipWindow = 0 THEN pagehide ELSE pagehide \cup {pipWindow})
             /\ pipWindowRef' = pipCount + 1
             /\ isPipActive' = TRUE
             /\ owned' = owned \cup {pipCount + 1}
             /\ mirror' = updatePipWindow
             /\ pushAfter(pipCount + 1, ~isPipActive)
             /\ lastOp' = "pip-open"
  /\ UNCHANGED << settingsState, ambient >>

\* togglePip(): with a mirror on, close it; otherwise ask the browser for a
\* window. outcome is what the browser does with the request.
togglePip(outcome) ==
  /\ pageMode = "focus"
  /\ UNCHANGED sessionState
  /\ UNCHANGED << pageMode, toPrimary, rounds >>
  /\ IF isPipActive /\ pipWindowRef # 0
     THEN /\ outcome = "close"
          /\ pipWindow' = (IF closed(pipWindowRef) THEN pipWindow ELSE 0)
          /\ pagehide' = (IF closed(pipWindowRef) THEN pagehide
                          ELSE pagehide \cup {pipWindowRef})
          /\ mirror' = (IF closed(pipWindowRef) THEN mirror ELSE NoMirror)
          /\ isPipActive' = FALSE
          /\ pipWindowRef' = 0
          /\ pushAfter(0, TRUE)
          /\ lastOp' = "pip-close"
          /\ UNCHANGED << pipCount, owned >>
     ELSE \/ /\ outcome \in {"unsupported", "rejected"}
             /\ lastOp' = "pip-open-failed"
             /\ UNCHANGED << isPipActive, pipWindowRef, pipWindow, pipCount, owned,
                             mirror, toMirror, pagehide >>
          \/ /\ outcome = "opened"
             /\ pipCount < MaxWindows
             /\ pipCount' = pipCount + 1
             /\ pipWindow' = pipCount + 1
             /\ pagehide' = (IF pipWindow = 0 THEN pagehide ELSE pagehide \cup {pipWindow})
             /\ pipWindowRef' = pipCount + 1
             /\ isPipActive' = TRUE
             /\ owned' = owned \cup {pipCount + 1}
             /\ mirror' = updatePipWindow
             /\ pushAfter(pipCount + 1, ~isPipActive)
             /\ lastOp' = "pip-open"
  /\ UNCHANGED << settingsState, ambient >>

\* The user, or the browser, closes the window.
closeWindow ==
  /\ pipWindow # 0
  /\ pipWindow' = 0
  /\ mirror' = NoMirror
  /\ toMirror' = << >>
  /\ pagehide' = pagehide \cup {pipWindow}
  /\ lastOp' = "window-closed"
  /\ UNCHANGED sessionState
  /\ UNCHANGED << pageMode, isPipActive, pipWindowRef, pipCount, owned, toPrimary,
                  rounds >>
  /\ UNCHANGED << settingsState, ambient >>

\* Mutation of pagehideListener: the listener clears the flag and leaves the
\* handle.
pagehideListenerFlagOnly(w) ==
  /\ w \in pagehide
  /\ pagehide' = pagehide \ {w}
  /\ isPipActive' = FALSE
  /\ pipWindowRef' = pipWindowRef
  /\ UNCHANGED pipWindow
  /\ pushAfter(pipWindowRef', isPipActive /\ pageMode = "focus")
  /\ lastOp' = "pagehide"
  /\ UNCHANGED sessionState
  /\ UNCHANGED << pageMode, pipCount, owned, mirror, toPrimary, rounds >>
  /\ UNCHANGED << settingsState, ambient >>

\* The pagehide (or unload) listener that togglePip put on window w.
pagehideListener(w) ==
  /\ w \in pagehide
  /\ pagehide' = pagehide \ {w}
  /\ isPipActive' = FALSE
  /\ pipWindowRef' = (IF w \in owned THEN 0 ELSE pipWindowRef)
  /\ UNCHANGED pipWindow
  /\ pushAfter(pipWindowRef', isPipActive /\ pageMode = "focus")
  /\ lastOp' = "pagehide"
  /\ UNCHANGED sessionState
  /\ UNCHANGED << pageMode, pipCount, owned, mirror, toPrimary, rounds >>
  /\ UNCHANGED << settingsState, ambient >>

\* Mutation of checkInterval: the check finds the window closed and leaves
\* the flag and the handle as they are.
checkIntervalNoCleanup ==
  /\ pageMode = "focus"
  /\ isPipActive
  /\ UNCHANGED << isPipActive, pipWindowRef >>
  /\ lastOp' = "check"
  /\ UNCHANGED sessionState
  /\ UNCHANGED << pageMode, pipWindow, pipCount, owned, mirror, toMirror,
                  toPrimary, pagehide, rounds >>
  /\ UNCHANGED << settingsState, ambient >>

\* One round of the 1-second check that runs while isPipActive.
checkInterval ==
  /\ pageMode = "focus"
  /\ isPipActive
  /\ IF pipWindowRef # 0 /\ closed(pipWindowRef)
     THEN isPipActive' = FALSE /\ pipWindowRef' = 0
     ELSE UNCHANGED << isPipActive, pipWindowRef >>
  /\ lastOp' = "check"
  /\ UNCHANGED sessionState
  /\ UNCHANGED << pageMode, pipWindow, pipCount, owned, mirror, toMirror,
                  toPrimary, pagehide, rounds >>
  /\ UNCHANGED << settingsState, ambient >>

\* Mutation of handleMessage: the listener also serves the action skip.
handleMessageWithSkip(msg) ==
  IF msg.type = "pip-control" /\ msg.action = "start" THEN startAs(received(msg))
  ELSE IF msg.type = "pip-control" /\ msg.action = "stop" THEN stopAs(received(msg))
  ELSE IF msg.type = "pip-control" /\ msg.action = "reset"
       THEN resetAs(received(msg), "focus")
  ELSE IF msg.type = "pip-control" /\ msg.action = "skip"
       THEN /\ running' = FALSE
            /\ ticker' = tickEffect(FALSE, timerMode, completedSessions)
            /\ lastOp' = received(msg)
            /\ UNCHANGED << storage, timerMode, completedSessions, secondsLeft,
                            focusExpired >>
  ELSE /\ lastOp' = received(msg)
       /\ UNCHANGED sessionState

\* Mutation of handleMessage: a control message is applied only while a
\* mirror is active.
handleMessageWhenActive(msg) ==
  IF ~isPipActive THEN /\ lastOp' = received(msg) /\ UNCHANGED sessionState
  ELSE IF msg.type = "pip-control" /\ msg.action = "start" THEN startAs(received(msg))
  ELSE IF msg.type = "pip-control" /\ msg.action = "stop" THEN stopAs(received(msg))
  ELSE IF msg.type = "pip-control" /\ msg.action = "reset" THEN resetAs(received(msg), "focus")
  ELSE /\ lastOp' = received(msg) /\ UNCHANGED sessionState

\* FocusMode's message listener. It was made by the first render, so the
\* reset() it calls reads that render's timerMode, "focus".
handleMessage(msg) ==
  IF msg.type = "pip-control" /\ msg.action = "start" THEN startAs(received(msg))
  ELSE IF msg.type = "pip-control" /\ msg.action = "stop" THEN stopAs(received(msg))
  ELSE IF msg.type = "pip-control" /\ msg.action = "reset"
       THEN resetAs(received(msg), "focus")
  ELSE /\ lastOp' = received(msg)
       /\ UNCHANGED sessionState

\* The page receives the oldest message the mirror posted to window.parent
\* (taken here to be the page that opened the mirror). With FocusMode
\* unmounted nothing listens.
receiveControl ==
  /\ toPrimary # << >>
  /\ toPrimary' = Tail(toPrimary)
  /\ IF pageMode = "focus"
     THEN handleMessage(Head(toPrimary)) /\ pushEffect
     ELSE /\ lastOp' = "message-dropped"
          /\ UNCHANGED sessionState
          /\ UNCHANGED << isPipActive, pipWindowRef, toMirror >>
  /\ UNCHANGED << pageMode, pipWindow, pipCount, owned, mirror, pagehide, rounds >>
  /\ UNCHANGED << settingsState, ambient >>

\* The page receives a message from any other window or script.
receiveForeign(msg) ==
  /\ pageMode = "focus"
  /\ handleMessage(msg)
  /\ pushEffect
  /\ UNCHANGED << pageMode, pipWindow, pipCount, owned, mirror, toPrimary, pagehide,
                  rounds >>
  /\ UNCHANGED << settingsState, ambient >>

\* The mirror receives the oldest state message of the page.
receiveUpdate ==
  /\ pipWindow # 0
  /\ toMirror # << >>
  /\ toMirror' = Tail(toMirror)
  /\ mirror' = mirrorOnMessage(mirror, Head(toMirror))
  /\ lastOp' = "mirror-update"
  /\ UNCHANGED sessionState
  /\ UNCHANGED << pageMode, isPipActive, pipWindowRef, pipWindow, pipCount, owned,
                  toPrimary, pagehide, rounds >>
  /\ UNCHANGED << settingsState, ambient >>

\* The mirror receives a message that is not the page's state message.
mirrorReceiveForeign(msg) ==
  /\ pipWindow # 0
  /\ mirror' = mirrorOnMessage(mirror, msg)
  /\ lastOp' = "mirror-foreign"
  /\ UNCHANGED sessionState
  /\ UNCHANGED << pageMode, isPipActive, pipWindowRef, pipWindow, pipCount, owned,
                  toMirror, toPrimary, pagehide, rounds >>
  /\ UNCHANGED << settingsState, ambient >>

\* A click on a button of the mirror: the local function, then the message.
\* updateTimer shows Start when stopped, Stop when running, Reset when
\* stopped away from initialDuration.
mirrorClick(a) ==
  /\ pipWindow # 0
  /\ Len(toPrimary) < MaxInFlight
  /\ \/ a = "start" /\ ~mirror.isRunning /\ mirror' = startTimer(mirror)
     \/ a = "stop" /\ mirror.isRunning /\ mirror' = stopTimer(mirror)
     \/ /\ a = "reset"
        /\ ~mirror.isRunning
        /\ mirror.currentSeconds # mirror.initialDuration
        /\ mirror' = resetTimer(mirror)
  /\ toPrimary' = Append(toPrimary, pipControl(a))
  /\ lastOp' = "mirror-click"
  /\ UNCHANGED sessionState
  /\ UNCHANGED << pageMode, isPipActive, pipWindowRef, pipWindow, pipCount, owned,
                  toMirror, pagehide, rounds >>
  /\ UNCHANGED << settingsState, ambient >>

\* The mirror's own interval fires.
mirrorTick ==
  /\ pipWindow # 0
  /\ mirror.loops > 0
  /\ rounds < MaxRounds
  /\ rounds' = rounds + 1
  /\ mirror' = intervalTimer(mirror)
  /\ lastOp' = "mirror-tick"
  /\ UNCHANGED sessionState
  /\ UNCHANGED << pageMode, isPipActive, pipWindowRef, pipWindow, pipCount, owned,
                  toMirror, toPrimary, pagehide >>
  /\ UNCHANGED << settingsState, ambient >>

\* ---------------------------------------------------------------------------
\* AmbientMode.

\* The initialiser of AmbientMode's secondsLeft, which reset() repeats:
\* JSON.parse(raw).ambientDuration * 60 when the item exists, 5 * 60 when it
\* does not or cannot be parsed. A record without ambientDuration gives
\* undefined * 60, NaN.
ambientSeconds ==
  IF storage = << >> THEN << 5 * 60 >>
  ELSE IF "corrupt" \in DOMAIN storage[1] THEN << 5 * 60 >>
  ELSE IF "ambientDuration" \in DOMAIN storage[1]
       THEN << storage[1].ambientDuration * 60 >>
  ELSE << >>

\* AmbientMode just mounted.
AmbientMode == [running |-> FALSE, secondsLeft |-> ambientSeconds, ref |-> FALSE]

\* The rest of the page stays while AmbientMode acts.
ambientFrame ==
  /\ UNCHANGED sessionState
  /\ UNCHANGED << pageMode, isPipActive, pipWindowRef, pipWindow, pipCount, owned,
                  mirror, toMirror, toPrimary, pagehide, rounds >>
  /\ UNCHANGED settingsState

\* The Start button, disabled while running; the effect makes the interval.
ambientStart ==
  /\ pageMode = "ambient"
  /\ ~ambient.running
  /\ ambient' = [ambient EXCEPT !.running = TRUE, !.ref = TRUE]
  /\ lastOp' = "ambient-start"
  /\ ambientFrame

\* The Stop button, disabled while not running; the effect's cleanup clears
\* the interval.
ambientStop ==
  /\ pageMode = "ambient"
  /\ ambient.running
  /\ ambient' = [ambient EXCEPT !.running = FALSE, !.ref = FALSE]
  /\ lastOp' = "ambient-stop"
  /\ ambientFrame

\* The Reset button.
ambientReset ==
  /\ pageMode = "ambient"
  /\ ambient' = [running |-> FALSE, secondsLeft |-> ambientSeconds, ref |-> FALSE]
  /\ lastOp' = "ambient-reset"
  /\ ambientFrame

\* One round of AmbientMode's interval: Math.max(0, s - 1), NaN for NaN.
ambientTick ==
  /\ pageMode = "ambient"
  /\ ambient.ref
  /\ ambient' = [ambient EXCEPT !.secondsLeft =
                   IF ambient.secondsLeft = << >> THEN << >>
                   ELSE IF ambient.secondsLeft[1] - 1 > 0
                        THEN << ambient.secondsLeft[1] - 1 >> ELSE << 0 >>]
  /\ lastOp' = "ambient-tick"
  /\ ambientFrame

\* The mode buttons, had FocusMode stayed mounted while another run mode is
\* shown: the session is left as it was.
setModeKeepsSession(newPage) ==
  /\ newPage \in {"home", "focus", "ambient"} \ {pageMode}
  /\ pageMode' = newPage
  /\ lastOp' = (IF pageMode = "focus" THEN "unmount"
                ELSE IF newPage = "focus" THEN "mount" ELSE "page")
  /\ UNCHANGED << storage, timerMode, running, completedSessions, secondsLeft,
                  ticker, focusExpired >>
  /\ UNCHANGED << isPipActive, pipWindowRef, owned >>
  /\ UNCHANGED << pipWindow, pipCount, mirror, toMirror, toPrimary, pagehide, rounds >>
  /\ ambient' = (IF newPage = "ambient" THEN AmbientMode ELSE NoAmbient)
  /\ UNCHANGED settingsState

\* The mode buttons of the page. Leaving "focus" unmounts FocusMode: its
\* effects are cleaned up and its state and its handle are gone (the model
\* keeps the values of the next mount); the page's effect clears isPipActive.
\* Entering "focus" mounts a new FocusMode.
setMode(newPage) ==
  /\ newPage \in {"home", "focus", "ambient"} \ {pageMode}
  /\ pageMode' = newPage
  /\ IF pageMode = "focus"
     THEN /\ timerMode' = "focus"
          /\ running' = FALSE
          /\ completedSessions' = 0
          /\ secondsLeft' = getTimerDuration("focus")
          /\ ticker' = << >>
          /\ focusExpired' = 0
          /\ isPipActive' = FALSE
          /\ pipWindowRef' = 0
          /\ owned' = {}
          /\ lastOp' = "unmount"
          /\ UNCHANGED storage
     ELSE /\ lastOp' = (IF newPage = "focus" THEN "mount" ELSE "page")
          /\ UNCHANGED sessionState
          /\ UNCHANGED << isPipActive, pipWindowRef, owned >>
  /\ UNCHANGED << pipWindow, pipCount, mirror, toMirror, toPrimary, pagehide, rounds >>
  /\ ambient' = (IF newPage = "ambient" THEN AmbientMode ELSE NoAmbient)
  /\ UNCHANGED settingsState

\* One round of FocusMode's interval, counted.
PrimaryRound(i) ==
  /\ pageMode = "focus"
  /\ rounds < MaxRounds
  /\ rounds' = rounds + 1
  /\ tick(i)
  /\ pushEffect
  /\ UNCHANGED << pageMode, pipWindow, pipCount, owned, mirror, toPrimary, pagehide >>
  /\ UNCHANGED << settingsState, ambient >>

\* A focus countdown that was started at mount and has run down to its last
\* seconds.
FocusModeNearExpiry ==
  /\ timerMode = "focus"
  /\ running = TRUE
  /\ completedSessions = 0
  /\ secondsLeft = MaxRounds - 1
  /\ ticker = << [timerMode |-> "focus", completedSessions |-> 0] >>
  /\ lastOp = "tick"
  /\ focusExpired = 0

InitMirror ==
  /\ storage \in MirrorStoredSettings
  /\ FocusModeInit \/ FocusModeNearExpiry
  /\ PipInit
  /\ PomodoroSectionInit

\* The page and its mirror exchanging messages: the window opens and is
\* closed by the PiP button only, and FocusMode stays mounted.
NextMirror ==
  \/ Primary(start)
  \/ Primary(stop)
  \/ Primary(reset)
  \/ \E i \in DOMAIN ticker : PrimaryRound(i)
  \/ \E outcome \in {"close", "unsupported", "rejected", "opened"} : togglePip(outcome)
  \/ receiveControl
  \/ \E msg \in ForeignMessages : receiveForeign(msg)
  \/ receiveUpdate
  \/ \E msg \in ForeignMessages : mirrorReceiveForeign(msg)
  \/ \E a \in {"start", "stop", "reset"} : mirrorClick(a)
  \/ mirrorTick

SpecMirror == InitMirror /\ [][NextMirror]_vars

\* The life of the window: it is opened, closed from either side, found
\* closed, and left behind when the page leaves "focus".
NextWindow ==
  \/ Primary(start)
  \/ Primary(stop)
  \/ Primary(reset)
  \/ \E i \in DOMAIN ticker : PrimaryRound(i)
  \/ \E outcome \in {"close", "unsupported", "rejected", "opened"} : togglePip(outcome)
  \/ closeWindow
  \/ \E w \in pagehide : pagehideListener(w)
  \/ checkInterval
  \/ receiveUpdate
  \/ \E newPage \in {"home", "focus", "ambient"} : setMode(newPage)

SpecWindow == InitMirror /\ [][NextWindow]_vars

\* The page with every stored record of the session model, the session in
\* its first state or one second from the end of a focus session, and the
\* mode buttons: FocusMode is unmounted and mounted again.
InitMount ==
  /\ storage \in StoredSettings
  /\ \/ FocusModeInit
     \/ FocusModeNearExpiry /\ getTimerDuration("focus") > secondsLeft
  /\ PipInit
  /\ PomodoroSectionInit

NextMount ==
  \/ Primary(start)
  \/ Primary(stop)
  \/ Primary(reset)
  \/ \E i \in 1..MaxInterval : PrimaryRound(i)
  \/ \E newPage \in {"home", "focus", "ambient"} : setMode(newPage)

SpecMount == InitMount /\ [][NextMount]_vars

\* What localStorage may hold when AmbientMode mounts: nothing, text that
\* is not JSON, the settings record of the preset editor, and a settings
\* record with an ambientDuration of one minute.
AmbientStored ==
  { << >>,
    << [corrupt |-> TRUE] >>,
    << [selectedPreset |-> "pomodoro-classic", presets |-> getDefaultPresets] >>,
    << [selectedPreset |-> "pomodoro-classic", presets |-> getDefaultPresets,
        ambientDuration |-> 1] >> }

InitAmbient ==
  /\ storage \in AmbientStored
  /\ FocusModeInit
  /\ PipInit
  /\ PomodoroSectionInit

\* The page's mode buttons and AmbientMode's buttons and interval.
NextAmbient ==
  \/ \E newPage \in {"home", "focus", "ambient"} : setMode(newPage)
  \/ ambientStart
  \/ ambientStop
  \/ ambientReset
  \/ ambientTick

SpecAmbient == InitAmbient /\ [][NextAmbient]_vars

\* ---------------------------------------------------------------------------
\* The preset settings of PomodoroSection.

\* A preset of a settings record that was stored by an earlier session.
storedCustom ==
  [id |-> "custom-0", type |-> "custom", focusDuration |-> 1,
   shortBreakDuration |-> 1, longBreakDuration |-> 2, longBreakInterval |-> 1,
   autoStartBreaks |-> FALSE, autoStartFocus |-> FALSE, isDefault |-> FALSE]

\* What localStorage may hold when the settings component reads it: nothing,
\* text that JSON.parse rejects, a record with no presets key, one with an
\* empty presets list and no selectedPreset key, one with a partial list.
SettingsStored ==
  { << >>,
    << [corrupt |-> TRUE] >>,
    << [selectedPreset |-> "stopwatch"] >>,
    << [presets |-> << >>] >>,
    << [selectedPreset |-> "custom-0",
        presets |-> << getDefaultPresets[1], storedCustom >>] >> }

\* What the server may answer to getUserPomodoroSetting: an empty list, a
\* partial list, the built-in list with a user's preset.
ServerRecords ==
  { [selectedPreset |-> "pomodoro-classic", presets |-> << >>],
    [selectedPreset |-> "custom-0", presets |-> << getDefaultPresets[1], storedCustom >>],
    [selectedPreset |-> "stopwatch", presets |-> Append(getDefaultPresets, storedCustom)] }

\* parsed.selectedPreset || 'pomodoro-classic' and parsed.presets || defaults
\* of a parsed record.
selectedOr(parsed) ==
  IF "selectedPreset" \in DOMAIN parsed /\ parsed.selectedPreset # ""
  THEN parsed.selectedPreset ELSE "pomodoro-classic"

presetsOr(parsed) ==
  IF "presets" \in DOMAIN parsed THEN parsed.presets ELSE getDefaultPresets

defaultSettings ==
  [selectedPreset |-> "pomodoro-classic", presets |-> getDefaultPresets]

\* parsed.presets.forEach: a stored preset whose id is not yet in the merged
\* list is pushed onto it.
RECURSIVE pushMissing(_, _)
pushMissing(merged, rest) ==
  IF rest = << >> THEN merged
  ELSE pushMissing(IF find(merged, Head(rest).id) = {}
                   THEN Append(merged, Head(rest)) ELSE merged,
                   Tail(rest))

\* The merge of the localStorage branch: every built-in, replaced by the
\* stored preset of the same id when there is one, then the other stored ones.
mergedPresets(stored) ==
  pushMissing([i \in DOMAIN getDefaultPresets |->
                 LET existing == find(stored, getDefaultPresets[i].id)
                 IN  IF existing = {} THEN getDefaultPresets[i]
                     ELSE CHOOSE q \in existing : TRUE],
              stored)

\* timerSettings of store value st and localStorage item ls: the record of
\* the store as it is when the store has one, else the localStorage record
\* merged with the built-ins, else the defaults.
timerSettingsOf(st, ls) ==
  IF st # << >>
  THEN [selectedPreset |-> st[1].selectedPreset, presets |-> st[1].presets]
  ELSE IF ls = << >> \/ "corrupt" \in DOMAIN ls[1] THEN defaultSettings
  ELSE [selectedPreset |-> selectedOr(ls[1]),
        presets |-> IF "presets" \in DOMAIN ls[1]
                    THEN mergedPresets(ls[1].presets) ELSE getDefaultPresets]

\* timerSettings of the present render.
timerSettings == timerSettingsOf(userPomodoroSetting, storage)

\* The effect keyed on timerSettings.selectedPreset: when the value changed
\* and is not empty, localSelectedPreset follows it; local is the value the
\* handler itself left.
syncSelected(local, st, ls) ==
  LET after == timerSettingsOf(st, ls).selectedPreset
  IN  IF after # timerSettings.selectedPreset /\ after # "" THEN after ELSE local

\* The preset shown in the details panel, as a set of 0 or 1.
currentPreset == find(timerSettings.presets, localSelectedPreset)

\* The details panel shows the edit form.
editMode ==
  /\ currentPreset # {}
  /\ isEditing
  /\ editingPreset # << >>
  /\ editingPreset[1].id = localSelectedPreset

\* `custom-${Date.now()}`
customId == "custom-" \o ToString(now)

\* parseInt of the text of a number input, as a sequence of 0 (NaN) or 1.
InputTexts == {"abc", "0", "-1", "2"}

parseInt(text) ==
  CASE text = "0"  -> << 0 >>
    [] text = "-1" -> << -1 >>
    [] text = "2"  -> << 2 >>
    [] OTHER       -> << >>

\* parseInt(text) || d
parseIntOr(text, d) ==
  IF parseInt(text) = << >> \/ parseInt(text)[1] = 0 THEN d ELSE parseInt(text)[1]

\* A call of userStore.updateUserPomodoroSetting(data, fields) that awaits
\* its answer, with what the code after the await closed over: the
\* selectedPreset of the render (revert) and, for the copy of a built-in, the
\* copy.
request(op, data, fields, preset) ==
  [op |-> op, data |-> data, fields |-> fields,
   revert |-> timerSettings.selectedPreset, preset |-> preset]

\* The calls of updateUserPomodoroSetting among the pending calls.
saves == SelectSeq(pending, LAMBDA r : r.op \notin {"load", "page-load"})

\* The other variables of the page stay while the settings component acts.
settingsFrame ==
  UNCHANGED << timerMode, running, completedSessions, secondsLeft, ticker,
               focusExpired, pageMode, isPipActive, pipWindowRef, pipWindow,
               pipCount, owned, mirror, toMirror, toPrimary, pagehide, rounds,
               ambient >>

\* One step of the settings component, counted.
Settings(A) ==
  /\ steps < MaxSteps
  /\ steps' = steps + 1
  /\ A
  /\ settingsFrame

\* handlePresetOperation up to its await: the loading flag, the local
\* selection, and the request built from timerSettings of this render.
handlePresetOperation(op, selected, presets, preset) ==
  /\ Len(saves) < MaxPending
  /\ isOperationLoading' = TRUE
  /\ localSelectedPreset' = selected
  /\ pending' = Append(pending,
                       request(op, [selectedPreset |-> selected, presets |-> presets],
                               {"selectedPreset", "presets"}, preset))
  /\ lastOp' = op
  /\ UNCHANGED << storage, userPomodoroSetting, now >>

\* The New Preset button.
newPreset ==
  /\ ~isOperationLoading
  /\ LET preset == [id |-> customId, type |-> "custom", focusDuration |-> 25,
                    shortBreakDuration |-> 5, longBreakDuration |-> 15,
                    longBreakInterval |-> 4, autoStartBreaks |-> TRUE,
                    autoStartFocus |-> TRUE, isDefault |-> FALSE]
     IN  handlePresetOperation("create", preset.id,
                               Append(timerSettings.presets, preset), << >>)
  /\ UNCHANGED << isEditing, editingPreset >>

\* The preset dropdown, whose onValueChange fires for a value other than the
\* one shown: handleTimerSettingChange('selectedPreset', value).
selectPreset(value) ==
  /\ ~isOperationLoading
  /\ value # localSelectedPreset
  /\ find(timerSettings.presets, value) # {}
  /\ handlePresetOperation("select", value, timerSettings.presets, << >>)
  /\ UNCHANGED << isEditing, editingPreset >>

\* Mutation of editPreset: a built-in is edited in place like a user's preset.
editPresetInPlace ==
  /\ currentPreset # {}
  /\ ~editMode
  /\ LET cur == CHOOSE q \in currentPreset : TRUE
     IN  /\ editingPreset' = << cur >>
         /\ isEditing' = TRUE
         /\ lastOp' = "edit"
         /\ UNCHANGED << storage, userPomodoroSetting, localSelectedPreset,
                         isOperationLoading, pending, now >>

\* The Edit button of the details panel: a built-in is copied under a new id
\* and the copy is created and edited; a user's preset is edited directly.
editPreset ==
  /\ currentPreset # {}
  /\ ~editMode
  /\ LET cur == CHOOSE q \in currentPreset : TRUE
         userCopy == [cur EXCEPT !.id = customId, !.isDefault = FALSE,
                                  !.type = "custom"]
     IN  IF cur.isDefault
         THEN /\ editingPreset' = << userCopy >>
              /\ isEditing' = TRUE
              /\ handlePresetOperation("copy", userCopy.id,
                                       Append(timerSettings.presets, userCopy),
                                       << userCopy >>)
         ELSE /\ editingPreset' = << cur >>
              /\ isEditing' = TRUE
              /\ lastOp' = "edit"
              /\ UNCHANGED << storage, userPomodoroSetting, localSelectedPreset,
                              isOperationLoading, pending, now >>

\* Mutation of deletePreset: the button is shown for every preset.
deletePresetAny ==
  /\ currentPreset # {}
  /\ ~editMode
  /\ ~isOperationLoading
  /\ LET cur == CHOOSE q \in currentPreset : TRUE
     IN  handlePresetOperation("delete", "pomodoro-classic",
                SelectSeq(timerSettings.presets, LAMBDA q : q.id # cur.id), << >>)
  /\ UNCHANGED << isEditing, editingPreset >>

\* Mutation of deletePreset: the selection stays on the deleted preset.
deletePresetKeepsSelection ==
  /\ currentPreset # {}
  /\ ~editMode
  /\ ~isOperationLoading
  /\ LET cur == CHOOSE q \in currentPreset : TRUE
     IN  /\ ~cur.isDefault
         /\ handlePresetOperation("delete", localSelectedPreset,
                SelectSeq(timerSettings.presets, LAMBDA q : q.id # cur.id), << >>)
  /\ UNCHANGED << isEditing, editingPreset >>

\* The Delete button, shown for a preset that is not a built-in.
deletePreset ==
  /\ currentPreset # {}
  /\ ~editMode
  /\ ~isOperationLoading
  /\ LET cur == CHOOSE q \in currentPreset : TRUE
     IN  /\ ~cur.isDefault
         /\ handlePresetOperation("delete", "pomodoro-classic",
                SelectSeq(timerSettings.presets, LAMBDA q : q.id # cur.id), << >>)
  /\ UNCHANGED << isEditing, editingPreset >>

\* handleTimerSettingChange for the keys focusDuration and ambientDuration:
\* the list it sends to be stored, << >> when it sends nothing. No control of
\* the page calls it with these keys.
durationChange(key, value) ==
  LET found == find(timerSettings.presets, timerSettings.selectedPreset)
      cur == CHOOSE q \in found : TRUE
      field == IF key = "focusDuration" THEN "focusDuration" ELSE "shortBreakDuration"
  IN  IF found = {} THEN << >>
      ELSE IF cur.isDefault THEN << >>
      ELSE [i \in DOMAIN timerSettings.presets |->
              IF timerSettings.presets[i].id = cur.id
              THEN [cur EXCEPT ![field] = value] ELSE timerSettings.presets[i]]

\* The four number inputs of the edit form.
EditFields ==
  [focusDuration |-> 25, shortBreakDuration |-> 5, longBreakDuration |-> 15,
   longBreakInterval |-> 4]

inputChange(field, text) ==
  /\ editMode
  /\ editingPreset' =
       << [editingPreset[1] EXCEPT ![field] = parseIntOr(text, EditFields[field])] >>
  /\ lastOp' = "input"
  /\ UNCHANGED << storage, userPomodoroSetting, localSelectedPreset, isEditing,
                  isOperationLoading, pending, now >>

\* The Save button of the edit form, up to its await.
savePreset ==
  /\ editMode
  /\ Len(saves) < MaxPending
  /\ pending' = Append(pending,
       request("save",
               [selectedPreset |-> "",
                presets |-> [i \in DOMAIN timerSettings.presets |->
                               IF timerSettings.presets[i].id = editingPreset[1].id
                               THEN editingPreset[1] ELSE timerSettings.presets[i]]],
               {"presets"}, << >>))
  /\ lastOp' = "save"
  /\ UNCHANGED << storage, userPomodoroSetting, localSelectedPreset, isEditing,
                  editingPreset, isOperationLoading, now >>

\* The Cancel button of the edit form.
cancelEdit ==
  /\ editMode
  /\ isEditing' = FALSE
  /\ editingPreset' = << >>
  /\ lastOp' = "cancel"
  /\ UNCHANGED << storage, userPomodoroSetting, localSelectedPreset,
                  isOperationLoading, pending, now >>

without(seq, i) == SubSeq(seq, 1, i - 1) \o SubSeq(seq, i + 1, Len(seq))

\* The record of the store after updateUserPomodoroSetting(data, fields) was
\* accepted: the named fields are replaced. A store that was never loaded
\* has the server's first selection, Classic.
updated(req) ==
  << [selectedPreset |->
        IF "selectedPreset" \in req.fields THEN req.data.selectedPreset
        ELSE IF userPomodoroSetting = << >> THEN "pomodoro-classic"
        ELSE userPomodoroSetting[1].selectedPreset,
      presets |-> req.data.presets] >>

\* The localStorage item after the store accepted the record st: the record.
persisted(st) == st

\* An answer to a pending updateUserPomodoroSetting: the code after the
\* await of handlePresetOperation (create, copy, select, delete), of the Edit
\* button (copy) and of the Save button (save), and the effect that syncs
\* localSelectedPreset.
answerSave(i, ok) ==
  /\ i \in DOMAIN pending
  /\ pending[i].op \notin {"load", "page-load"}
  /\ LET req == pending[i]
         st == updated(req)
     IN  /\ pending' = without(pending, i)
         /\ IF ok
            THEN /\ userPomodoroSetting' = st
                 /\ storage' = persisted(st)
                 /\ localSelectedPreset' =
                      syncSelected(localSelectedPreset, st, persisted(st))
                 /\ isEditing' = IF req.op = "save" THEN FALSE ELSE isEditing
                 /\ editingPreset' = CASE req.op = "save" -> << >>
                                       [] req.op = "copy" -> req.preset
                                       [] OTHER -> editingPreset
            ELSE /\ UNCHANGED << userPomodoroSetting, storage >>
                 /\ localSelectedPreset' =
                      IF req.op = "save" THEN localSelectedPreset ELSE req.revert
                 /\ isEditing' = IF req.op = "copy" THEN FALSE ELSE isEditing
                 /\ editingPreset' = IF req.op = "copy" THEN << >> ELSE editingPreset
         /\ isOperationLoading' = IF req.op = "save" THEN isOperationLoading ELSE FALSE
         /\ lastOp' = req.op \o (IF ok THEN ":ok" ELSE ":failed")
  /\ UNCHANGED now

\* Mutation of loadFallback: without a usable localStorage record the store
\* gets Classic selected and an empty list.
loadFallbackEmpty ==
  IF storage = << >> \/ "corrupt" \in DOMAIN storage[1]
  THEN << [selectedPreset |-> "pomodoro-classic", presets |-> << >>] >>
  ELSE << [selectedPreset |-> selectedOr(storage[1]),
           presets |-> presetsOr(storage[1])] >>

\* The store value the load effect of PomodoroSection sets when the server
\* fails: the localStorage record with its gaps filled, else the defaults.
loadFallback ==
  IF storage = << >> \/ "corrupt" \in DOMAIN storage[1] THEN << defaultSettings >>
  ELSE << [selectedPreset |-> selectedOr(storage[1]),
           presets |-> presetsOr(storage[1])] >>

\* An answer to a pending getUserPomodoroSetting, << >> for a failure: the
\* load effect of PomodoroSection falls back to localStorage, the one of
\* PomodoroPage only logs.
answerLoad(i, answer) ==
  /\ i \in DOMAIN pending
  /\ pending[i].op \in {"load", "page-load"}
  /\ pending' = without(pending, i)
  /\ LET st == IF answer # << >> THEN answer
               ELSE IF pending[i].op = "load" THEN loadFallback
               ELSE userPomodoroSetting
     IN  /\ userPomodoroSetting' = st
         /\ localSelectedPreset' = syncSelected(localSelectedPreset, st, storage)
  /\ lastOp' = pending[i].op \o (IF answer # << >> THEN ":ok" ELSE ":failed")
  /\ UNCHANGED << storage, isEditing, editingPreset, isOperationLoading, now >>

\* A millisecond passes.
clockTick ==
  /\ now < MaxClock
  /\ now' = now + 1
  /\ UNCHANGED << storage, lastOp, userPomodoroSetting, localSelectedPreset,
                  isEditing, editingPreset, isOperationLoading, pending, steps >>
  /\ settingsFrame

\* getUserPomodoroSetting called by the mount effect named op.
loadRequest(op) ==
  [op |-> op, data |-> defaultSettings, fields |-> {}, revert |-> "",
   preset |-> << >>]

\* PomodoroSection just mounted with a user signed in, alone or with
\* PomodoroPage: each has called getUserPomodoroSetting.
SettingsMounted ==
  /\ userPomodoroSetting = << >>
  /\ localSelectedPreset = "pomodoro-classic"
  /\ isEditing = FALSE
  /\ editingPreset = << >>
  /\ isOperationLoading = FALSE
  /\ pending \in { << loadRequest("load") >>,
                    << loadRequest("load"), loadRequest("page-load") >> }
  /\ now = 1
  /\ steps = 0

InitSettings ==
  /\ storage \in SettingsStored
  /\ FocusModeInit
  /\ PipInit
  /\ SettingsMounted
  /\ Len(pending) = 1

NextSettings ==
  \/ Settings(newPreset)
  \/ \E value \in {"pomodoro-classic", "custom-0"} : Settings(selectPreset(value))
  \/ Settings(editPreset)
  \/ Settings(deletePreset)
  \/ \E field \in DOMAIN EditFields, text \in InputTexts : Settings(inputChange(field, text))
  \/ Settings(savePreset)
  \/ Settings(cancelEdit)
  \/ \E i \in 1..(MaxPending + 2), ok \in BOOLEAN : Settings(answerSave(i, ok))
  \/ \E i \in 1..(MaxPending + 2), answer \in {<< >>} \cup {<< r >> : r \in ServerRecords} :
        Settings(answerLoad(i, answer))
  \/ clockTick

SpecSettings == InitSettings /\ [][NextSettings]_vars

\* The settings component after its load was answered with a record that has
\* every built-in: the built-in list alone, or with a user's preset selected.
LoadedRecords ==
  { [selectedPreset |-> "pomodoro-classic", presets |-> getDefaultPresets],
    [selectedPreset |-> "stopwatch", presets |-> getDefaultPresets],
    [selectedPreset |-> "custom-0", presets |-> Append(getDefaultPresets, storedCustom)] }

InitPresets ==
  /\ \E r \in LoadedRecords :
       /\ userPomodoroSetting = << r >>
       /\ storage = persisted(<< r >>)
       /\ localSelectedPreset = r.selectedPreset
  /\ isEditing = FALSE
  /\ editingPreset = << >>
  /\ isOperationLoading = FALSE
  /\ pending = << >>
  /\ now = 1
  /\ steps = 0
  /\ FocusModeInit
  /\ PipInit

NextPresets ==
  \/ Settings(newPreset)
  \/ \E value \in {"pomodoro-classic", "custom-0"} : Settings(selectPreset(value))
  \/ Settings(editPreset)
  \/ Settings(deletePreset)
  \/ \E field \in DOMAIN EditFields, text \in InputTexts : Settings(inputChange(field, text))
  \/ Settings(savePreset)
  \/ Settings(cancelEdit)
  \/ \E i \in 1..MaxPending, ok \in BOOLEAN : Settings(answerSave(i, ok))
  \/ clockTick

SpecPresets == InitPresets /\ [][NextPresets]_vars

\* PomodoroPage in its focus mode and PomodoroSection, both just mounted, the
\* countdown not started or one second from its end: the settings change
\* while the session goes on.
InitPage ==
  /\ storage \in SettingsStored
  /\ \/ FocusModeInit
     \/ FocusModeNearExpiry /\ getTimerDuration("focus") > secondsLeft
  /\ PipInit
  /\ SettingsMounted
  /\ Len(pending) = 2

NextPage ==
  \/ Settings(newPreset)
  \/ Settings(editPreset)
  \/ \E text \in {"-1", "2"} : Settings(inputChange("focusDuration", text))
  \/ Settings(savePreset)
  \/ \E i \in 1..(MaxPending + 2), ok \in BOOLEAN : Settings(answerSave(i, ok))
  \/ \E i \in 1..(MaxPending + 2), answer \in {<< >>} \cup {<< r >> : r \in ServerRecords} :
        Settings(answerLoad(i, answer))
  \/ Primary(reset)
  \/ \E i \in 1..MaxInterval : PrimaryRound(i)

SpecPage == InitPage /\ [][NextPage]_vars




\* ---------------------------------------------------------------- the design's rules
\* The statements below are written against the design's own rules, not the
\* code's: resolve() never fails (Classic when nothing matches), the duration
\* lookup, and the expiry transition algorithm.
Breaks == {"short-break", "long-break"}

SpecResolve ==
  IF getCurrentPreset = {} THEN getDefaultPresets[1]
  ELSE CHOOSE p \in getCurrentPreset : TRUE

SpecDuration(mode) == presetDuration(SpecResolve, mode)

SpecBreakAfter(n) ==
  IF n % SpecResolve.longBreakInterval = 0 THEN "long-break" ELSE "short-break"

SpecExpiry(m, c) ==
  IF m = "focus"
  THEN [timerMode |-> SpecBreakAfter(c + 1), completedSessions |-> c + 1,
        running |-> SpecResolve.autoStartBreaks,
        secondsLeft |-> SpecDuration(SpecBreakAfter(c + 1))]
  ELSE [timerMode |-> "focus", completedSessions |-> c,
        running |-> SpecResolve.autoStartFocus,
        secondsLeft |-> SpecDuration("focus")]

Session ==
  [timerMode |-> timerMode, completedSessions |-> completedSessions,
   running |-> running, secondsLeft |-> secondsLeft]

SessionNext ==
  [timerMode |-> timerMode', completedSessions |-> completedSessions',
   running |-> running', secondsLeft |-> secondsLeft']

\* ---------------------------------------------------------------- claims
\* C1: from a fresh session with no skip and no manual mode switch, the n-th
\* focus countdown that the clock expires goes to long-break exactly when
\* n mod longBreakInterval = 0 and to short-break otherwise; for Classic the
\* 4th one leaves long-break with 900 seconds.
C1_NthFocusCompletion ==
  [][ (lastOp' = "expire" /\ timerMode = "focus" /\ focusExpired >= 0)
        => /\ timerMode' = SpecBreakAfter(focusExpired')
           /\ (SpecResolve.id = "pomodoro-classic" /\ focusExpired' = 4)
                 => (timerMode' = "long-break" /\ secondsLeft' = 900) ]_vars

\* C2: a clock expiry in focus mode adds one to completedSessions, goes to
\* long-break when the new count mod longBreakInterval = 0 and to short-break
\* otherwise, sets secondsLeft to the full duration of the new mode and
\* running to the preset's autoStartBreaks.
C2_FocusExpiry ==
  [][ (lastOp' = "expire" /\ timerMode = "focus")
        => /\ completedSessions' = completedSessions + 1
           /\ timerMode' = SpecBreakAfter(completedSessions')
           /\ secondsLeft' = SpecDuration(timerMode')
           /\ running' = SpecResolve.autoStartBreaks ]_vars

\* C3: a clock expiry in a break mode goes to focus with the full focus
\* duration, running = the preset's autoStartFocus and completedSessions
\* unchanged, also for a break that the preceding focus expiry auto-started.
C3_BreakExpiry ==
  [][ (lastOp' = "expire" /\ timerMode \in Breaks)
        => /\ timerMode' = "focus"
           /\ secondsLeft' = SpecDuration("focus")
           /\ running' = SpecResolve.autoStartFocus
           /\ completedSessions' = completedSessions ]_vars

\* C4: reset() stops the clock and restores secondsLeft to the full duration
\* of the current mode; it leaves the mode and completedSessions alone.
C4_Reset ==
  [][ lastOp' = "reset"
        => /\ running' = FALSE
           /\ secondsLeft' = SpecDuration(timerMode)
           /\ timerMode' = timerMode
           /\ completedSessions' = completedSessions ]_vars

\* C4 witness: reset() has acted during a break of a session that already
\* completed a focus countdown.
C4_Witness ==
  /\ lastOp = "reset"
  /\ timerMode = "short-break"
  /\ completedSessions >= 1
  /\ secondsLeft = SpecDuration("short-break")
  /\ running = FALSE

\* C5: switchMode(newMode) stops the clock, sets the mode and the full
\* duration of the new mode; completedSessions becomes 0 when the new mode is
\* focus and is unchanged when it is a break.
C5_SwitchMode ==
  [][ lastOp' = "switchMode"
        => /\ running' = FALSE
           /\ timerMode' \in TimerModes
           /\ secondsLeft' = SpecDuration(timerMode')
           /\ completedSessions' =
                (IF timerMode' = "focus" THEN 0 ELSE completedSessions) ]_vars

\* C5 witness: switchMode to a break has acted on a session with completed
\* focus countdowns, and the count is still there.
C5_Witness ==
  /\ lastOp = "switchMode"
  /\ timerMode = "long-break"
  /\ completedSessions >= 2
  /\ secondsLeft = SpecDuration("long-break")
  /\ running = FALSE

\* C6: completedSessions never decreases except by switchMode(focus).
C6_CountMonotone ==
  [][ completedSessions' < completedSessions
        => (lastOp' = "switchMode" /\ timerMode' = "focus") ]_vars

\* C7: skip() leaves the state that the clock-driven expiry leaves from the
\* same mode, count and preset.
C7_SkipIsExpiry ==
  [][ lastOp' = "skip"
        => \A o \in expiryOutcomes(timerMode, completedSessions) :
              SessionNext = o ]_vars

\* C8: start() sets running, stop() clears it, both leave mode, secondsLeft
\* and completedSessions alone; start() on a running clock and stop() on a
\* stopped clock change nothing, and there is never a second ticking source.
C8_StartStop ==
  [][ /\ lastOp' = "start"
          => /\ running' = TRUE
             /\ UNCHANGED << timerMode, secondsLeft, completedSessions >>
             /\ running => ticker' = ticker
      /\ lastOp' = "stop"
          => /\ running' = FALSE
             /\ UNCHANGED << timerMode, secondsLeft, completedSessions >>
             /\ ~running => ticker' = ticker
      /\ Len(ticker') = (IF running' THEN 1 ELSE 0) ]_vars

\* C8 witness: start() has acted on a clock that was already running: the
\* one interval is still the one created before the mode last changed.
C8_Witness ==
  /\ lastOp = "start"
  /\ running = TRUE
  /\ Len(ticker) = 1
  /\ ticker[1].timerMode # timerMode

\* C9: with the Stopwatch preset selected, no step of the clock in focus mode
\* leaves focus mode or changes completedSessions.
StopwatchActive ==
  \E p \in getCurrentPreset : p.type = "stopwatch" /\ p.focusDuration = 0

C9_StopwatchNeverExpires ==
  [][ (StopwatchActive /\ timerMode = "focus" /\ lastOp' \in {"tick", "expire"})
        => (timerMode' = "focus" /\ completedSessions' = completedSessions) ]_vars

\* C10: a tick fires only while running; above one second left it takes
\* exactly one second and nothing else; the tick that reaches zero applies
\* the expiry transition exactly once.
C10_TickAndExpireOnce ==
  [][ lastOp' \in {"tick", "expire"}
        => /\ running
           /\ secondsLeft > 1
                => /\ secondsLeft' = secondsLeft - 1
                   /\ UNCHANGED << timerMode, completedSessions, running >>
           /\ secondsLeft = 1
                => SessionNext = SpecExpiry(timerMode, completedSessions) ]_vars


\* C11: a control message with action start, stop or reset relayed from the
\* mirror leaves the session as the same action invoked on the page would:
\* start and stop set running and change nothing else, reset stops the clock
\* and restores the full duration of the current mode, a break mode included.
Relayed(a) ==
  /\ toPrimary # << >>
  /\ Head(toPrimary) = pipControl(a)
  /\ toPrimary' = Tail(toPrimary)
  /\ lastOp' = received(pipControl(a))

C11_RelayedAsLocal ==
  [][ /\ Relayed("start")
        => /\ running' = TRUE
           /\ UNCHANGED << timerMode, completedSessions, secondsLeft >>
      /\ Relayed("stop")
        => /\ running' = FALSE
           /\ UNCHANGED << timerMode, completedSessions, secondsLeft >>
      /\ Relayed("reset")
        => /\ running' = FALSE
           /\ secondsLeft' = SpecDuration(timerMode)
           /\ UNCHANGED << timerMode, completedSessions >> ]_vars


\* C12: the mirror shows the page's secondsLeft and running (1) right after
\* it has applied the page's latest state message, and (2) whenever the page
\* holds an open mirror, no message is in flight in either direction and
\* neither countdown interval exists.
MirrorShowsPrimary ==
  /\ mirror.currentSeconds = secondsLeft
  /\ mirror.isRunning = running

MirrorHeld == pipWindowRef # 0 /\ ~closed(pipWindowRef)

C12_MirrorFollowsPrimary ==
  /\ (MirrorHeld /\ lastOp = "mirror-update" /\ toMirror = << >>)
       => MirrorShowsPrimary
  /\ (MirrorHeld /\ toMirror = << >> /\ toPrimary = << >>
        /\ ticker = << >> /\ ~mirror.intervalId)
       => MirrorShowsPrimary


\* C13: while the page holds a handle that reports closed, no step but the
\* opening of a new mirror posts a state message; with the flag still set the
\* 1-second check is due, whether or not a pagehide was delivered or the
\* session changed, and it clears the flag and the handle; once both are
\* cleared they stay so, and nothing is posted, until a new mirror is opened.
HandleClosed == pipWindowRef # 0 /\ closed(pipWindowRef)

NothingPosted == Len(toMirror') <= Len(toMirror)

C13_ClosedHandleDetected ==
  /\ []((pageMode = "focus" /\ isPipActive /\ HandleClosed) => ENABLED checkInterval)
  /\ [][ /\ (HandleClosed /\ lastOp' # "pip-open") => NothingPosted
         /\ (HandleClosed /\ lastOp' = "check")
              => (isPipActive' = FALSE /\ pipWindowRef' = 0)
         /\ (pipWindowRef = 0 /\ ~isPipActive /\ lastOp' # "pip-open")
              => (isPipActive' = FALSE /\ pipWindowRef' = 0 /\ NothingPosted) ]_vars

\* C13 witness: the window was closed, its pagehide has not been delivered,
\* and the check has cleared the flag and the handle.
C13_Witness ==
  /\ lastOp = "check"
  /\ pipWindow = 0
  /\ pagehide # {}
  /\ isPipActive = FALSE
  /\ pipWindowRef = 0


\* C14: whatever the mirror's variables are, applying a state message to
\* them twice in a row gives what applying it once gives: the same seconds,
\* running flag and loop.
Snapshots ==
  { pipUpdate(s, r, m) : s \in (0 .. MaxRounds) \cup {secondsLeft, getTimerDuration(timerMode)},
                         r \in BOOLEAN, m \in TimerModes }

C14_PushIdempotent ==
  pipWindow # 0
    => \A msg \in Snapshots :
         mirrorOnMessage(mirrorOnMessage(mirror, msg), msg) = mirrorOnMessage(mirror, msg)

\* C14 witness: a mirror with a loop of its own has just applied the page's
\* state message, and applying the same message again leaves it as it is.
C14_Witness ==
  /\ lastOp = "mirror-update"
  /\ pipWindow # 0
  /\ mirror.intervalId
  /\ running
  /\ mirrorOnMessage(mirror, pipUpdate(secondsLeft, running, timerMode)) = mirror


\* C15: when the mirror applies a state message it takes the message's
\* seconds and running flag; after a message with running true it has a loop
\* (one is started when none exists), after one with running false it has
\* none.
C15_PushSetsLoop ==
  [][ lastOp' = "mirror-update"
        => /\ mirror'.currentSeconds = Head(toMirror).seconds
           /\ mirror'.isRunning = Head(toMirror).running
           /\ (Head(toMirror).running /\ ~mirror.intervalId) => mirror'.intervalId
           /\ ~Head(toMirror).running => ~mirror'.intervalId ]_vars


\* C16: while the page holds an open mirror, every step that changes
\* secondsLeft, running or timerMode (a tick, an expiry, a button of the
\* page, a relayed control) posts exactly one state message, and the message
\* carries the three values as they are after the step.
C16_EveryChangePushed ==
  [][ (MirrorHeld /\ MirrorHeld'
         /\ << secondsLeft', running', timerMode' >> # << secondsLeft, running, timerMode >>)
        => /\ Len(toMirror') = Len(toMirror) + 1
           /\ toMirror'[Len(toMirror')] = pipUpdate(secondsLeft', running', timerMode') ]_vars

\* C16 witness: with a mirror held, a countdown has expired into a break and
\* the newest message in flight carries the state after the expiry.
C16_Witness ==
  /\ lastOp = "expire"
  /\ MirrorHeld
  /\ timerMode # "focus"
  /\ toMirror # << >>
  /\ toMirror[Len(toMirror)] = pipUpdate(secondsLeft, running, timerMode)


\* C17: while the page is in "home" or "ambient" (FocusMode is unmounted) no
\* countdown interval exists and no picture-in-picture window is open.
C17_UnmountStopsAndCloses ==
  pageMode # "focus" => (ticker = << >> /\ pipWindow = 0)


\* C18: when the browser has no documentPictureInPicture or rejects the
\* request, togglePip leaves the flag false, takes no handle and opens no
\* window, and the session with its countdown interval is as before.
C18_OpenFailureChangesNothing ==
  [][ lastOp' = "pip-open-failed"
        => /\ isPipActive' = FALSE
           /\ UNCHANGED << pipWindowRef, pipWindow, pipCount >>
           /\ UNCHANGED << timerMode, running, secondsLeft, completedSessions, ticker >> ]_vars

\* C18 witness: the request failed while a countdown was running; the page
\* holds no handle and the countdown's interval is still there.
C18_Witness ==
  /\ lastOp = "pip-open-failed"
  /\ running
  /\ ticker # << >>
  /\ isPipActive = FALSE
  /\ pipWindowRef = 0

\* The session after a step of FocusMode is what the step's handler alone
\* makes of the session before it.
HandlerAlone ==
  /\ lastOp' = "start"
       => (running' = TRUE /\ UNCHANGED << timerMode, completedSessions, secondsLeft >>)
  /\ lastOp' = "stop"
       => (running' = FALSE /\ UNCHANGED << timerMode, completedSessions, secondsLeft >>)
  /\ lastOp' = "reset"
       => /\ running' = FALSE
          /\ secondsLeft' = getTimerDuration(timerMode)
          /\ UNCHANGED << timerMode, completedSessions >>
  /\ lastOp' = "tick"
       => (secondsLeft' = secondsLeft - 1 /\ UNCHANGED << timerMode, completedSessions, running >>)
  /\ lastOp' = "expire"
       => \E i \in DOMAIN ticker :
            SessionNext \in expiryOutcomes(ticker[i].timerMode, ticker[i].completedSessions)

SessionChanges ==
  << secondsLeft', running', timerMode' >> # << secondsLeft, running, timerMode >>

\* C19 as stated: a change of the session while the held handle reports
\* closed posts nothing, leaves the flag false and the handle cleared, and
\* the session is what the handler alone produces.
ChangeWithClosedHandle ==
  pageMode = "focus" /\ pageMode' = "focus" /\ HandleClosed /\ SessionChanges

AppliedByPage(msg) ==
  msg.type = "pip-control" /\ msg.action \in {"start", "stop", "reset"}

C20_UnknownMessagesIgnored ==
  [][ /\ \A msg \in ForeignMessages :
           (lastOp' = received(msg) /\ ~AppliedByPage(msg))
             => UNCHANGED << timerMode, running, secondsLeft, completedSessions, ticker >>
      /\ lastOp' = "mirror-foreign" => mirror' = mirror ]_vars

\* C20 witness: the page has just handled a pip-control message whose
\* action is skip while its countdown was running in focus mode, and the
\* countdown is still the one of focus mode.
C20_Witness ==
  /\ lastOp = received(pipControl("skip"))
  /\ timerMode = "focus"
  /\ running
  /\ ticker # << >>
  /\ pipWindow # 0

\* C21: every mount of FocusMode has the session in mode "focus", not
\* running, no completed session, no interval, and the seconds of a focus
\* session of the stored selection (1500 when nothing is stored), whatever
\* the session was when the page left the focus run mode.
C21_MountIsFresh ==
  lastOp = "mount" =>
    /\ timerMode = "focus"
    /\ ~running
    /\ completedSessions = 0
    /\ ticker = << >>
    /\ secondsLeft = SpecDuration("focus")
    /\ (storage = << >> => secondsLeft = 1500)

\* A mount that follows a session in which the interval has fired twice.
C21_Witness ==
  lastOp = "mount" /\ rounds = MaxRounds /\ pageMode = "focus"

\* The interval that fires was created in the render of the present state.
FreshInterval ==
  ticker = << [timerMode |-> timerMode, completedSessions |-> completedSessions] >>

\* C23: the selected preset is the stored preset with the selected id, and
\* Classic when no stored preset has it or nothing is stored, both for the
\* seconds of every mode and for the transition made when a countdown ends.
C23_ResolveNeverFails ==
  [][ /\ \A m \in TimerModes : getTimerDuration(m) = SpecDuration(m)
      /\ (FreshInterval /\ lastOp' = "expire") =>
            /\ timerMode' = SpecExpiry(timerMode, completedSessions).timerMode
            /\ completedSessions' = SpecExpiry(timerMode, completedSessions).completedSessions
            /\ running' = SpecExpiry(timerMode, completedSessions).running ]_vars

\* The same statement for stored selections that name a stored preset.
C23_MatchedPresetUsed ==
  [][ getCurrentPreset # {} =>
      /\ \A m \in TimerModes : getTimerDuration(m) = SpecDuration(m)
      /\ (FreshInterval /\ lastOp' = "expire") =>
            /\ timerMode' = SpecExpiry(timerMode, completedSessions).timerMode
            /\ completedSessions' = SpecExpiry(timerMode, completedSessions).completedSessions
            /\ running' = SpecExpiry(timerMode, completedSessions).running ]_vars

\* Every built-in preset id is in the list.
HasBuiltIns(presets) ==
  \A i \in DOMAIN getDefaultPresets : find(presets, getDefaultPresets[i].id) # {}

\* The presets that the source of the settings holds: the store's when it
\* has a record, else those of the localStorage record.
SourcePresets ==
  IF userPomodoroSetting # << >> THEN userPomodoroSetting[1].presets
  ELSE IF storage # << >> /\ "presets" \in DOMAIN storage[1] THEN storage[1].presets
  ELSE << >>

\* C24: the list that the settings component presents has every built-in
\* preset id and every preset of its source that is not a built-in, whatever
\* the server answered and whatever localStorage holds.
C24_PresentedHasBuiltIns ==
  /\ HasBuiltIns(timerSettings.presets)
  /\ \A i \in DOMAIN SourcePresets :
       ~SourcePresets[i].isDefault =>
          find(timerSettings.presets, SourcePresets[i].id) # {}

\* The same statement while the store has no record: the localStorage branch.
C24_MergedWithoutStore ==
  userPomodoroSetting = << >> => C24_PresentedHasBuiltIns

\* C25: when the settings were loaded with every built-in in the list, the
\* stored list has every built-in after any create, copy, edit, save, select
\* and delete, answered in any order, and so has every list sent to be stored.
C25_BuiltInsKept ==
  /\ userPomodoroSetting # << >>
  /\ HasBuiltIns(userPomodoroSetting[1].presets)
  /\ \A i \in DOMAIN pending : HasBuiltIns(pending[i].data.presets)

\* After some operations the delete of a user's preset was stored and the
\* stored list is the built-in list.
C25_Witness ==
  /\ lastOp = "delete:ok"
  /\ steps >= 4
  /\ userPomodoroSetting[1].presets = getDefaultPresets

BuiltInIds == { getDefaultPresets[i].id : i \in DOMAIN getDefaultPresets }

\* The preset lists that are stored or on their way to be stored: the list of
\* the store and the list of every pending save.
StoredLists ==
  (IF userPomodoroSetting = << >> THEN {} ELSE { userPomodoroSetting[1].presets })
  \cup { saves[i].data.presets : i \in DOMAIN saves }

\* C26: in every stored list each preset that is not a built-in has
\* isDefault = FALSE, and no two presets have the same id, whenever the
\* creates happened.
C26_CreatedAreUnique ==
  \A presets \in StoredLists :
    /\ \A i \in DOMAIN presets :
         presets[i].id \notin BuiltInIds => ~presets[i].isDefault
    /\ \A i, j \in DOMAIN presets : i # j => presets[i].id # presets[j].id

\* The half of the statement about isDefault.
C26_CreatedAreNotDefault ==
  \A presets \in StoredLists :
    \A i \in DOMAIN presets :
       presets[i].id \notin BuiltInIds => ~presets[i].isDefault

\* C27: every preset of every stored list has longBreakInterval >= 1,
\* whatever was typed into the Long Break After input before Save.
C27_IntervalPositive ==
  \A presets \in StoredLists :
    \A i \in DOMAIN presets : presets[i].longBreakInterval >= 1

\* The part of the statement about zero and text that is not a number: the
\* edited preset never has them.
C27_ZeroAndNaNReplaced ==
  /\ \A text \in {"abc", "0"} : parseIntOr(text, EditFields.longBreakInterval) = 4
  /\ editingPreset # << >> => editingPreset[1].longBreakInterval # 0

\* C28: every preset of every stored list whose type is not stopwatch has a
\* focus, a short-break and a long-break duration of at least 1 minute, the
\* copy made by Edit on the built-in Stopwatch included.
C28_DurationsPositive ==
  \A presets \in StoredLists :
    \A i \in DOMAIN presets :
       presets[i].type # "stopwatch" =>
         /\ presets[i].focusDuration >= 1
         /\ presets[i].shortBreakDuration >= 1
         /\ presets[i].longBreakDuration >= 1

\* The part of the statement about a focus duration of 0.
C28_CopyOfStopwatch ==
  \A presets \in StoredLists :
    \A i \in DOMAIN presets :
       presets[i].type # "stopwatch" => presets[i].focusDuration # 0

\* C22: secondsLeft and completedSessions of FocusMode are never negative,
\* with every preset that the settings component can store and after every
\* tick, expiry and user action.
C22_NeverNegative ==
  secondsLeft >= 0 /\ completedSessions >= 0

\* The step is a refused load or save.
FailureStep ==
  lastOp' \in {"load:failed", "page-load:failed", "create:failed", "copy:failed",
               "select:failed", "delete:failed", "save:failed"}

\* What the settings component presents after its load was refused: the
\* values of the localStorage record where it has them, the built-in list
\* and Classic where it has not.
PresentedAfterFailedLoad ==
  LET after == timerSettingsOf(userPomodoroSetting', storage')
  IN  IF storage = << >> \/ "corrupt" \in DOMAIN storage[1]
      THEN after = defaultSettings
      ELSE /\ after.presets = IF "presets" \in DOMAIN storage[1]
                              THEN storage[1].presets ELSE getDefaultPresets
           /\ after.selectedPreset = IF "selectedPreset" \in DOMAIN storage[1]
                                     THEN storage[1].selectedPreset
                                     ELSE "pomodoro-classic"

\* C29: a refused load or save leaves the session of FocusMode and its
\* interval as they were, and after a refused load the settings component
\* has the built-in list and Classic selected except for what the
\* localStorage record supplies.
C29_FailuresKeepSession ==
  [][ FailureStep =>
        /\ UNCHANGED << timerMode, running, completedSessions, secondsLeft, ticker >>
        /\ (lastOp' = "load:failed" => PresentedAfterFailedLoad) ]_vars

\* The load is refused while the countdown runs and nothing usable is in
\* localStorage: the countdown still runs and the defaults are presented.
C29_Witness ==
  /\ lastOp = "load:failed"
  /\ running
  /\ ticker # << >>
  /\ secondsLeft = 1
  /\ userPomodoroSetting = << defaultSettings >>

\* The control message that a click in the mirror has just posted.
Posted == toPrimary'[Len(toPrimary')]

\* C30: a click on Start, Stop or Reset in the mirror changes the mirror's
\* variables at once (Start: running with an interval; Stop: not running, no
\* interval; Reset: not running, no interval, the seconds of a full countdown
\* of the page's present mode) and posts exactly one control message, with
\* the action of the button, to the page.
C30_MirrorClick ==
  [][ lastOp' = "mirror-click" =>
        /\ Len(toPrimary') = Len(toPrimary) + 1
        /\ SubSeq(toPrimary', 1, Len(toPrimary)) = toPrimary
        /\ Posted \in { pipControl(a) : a \in {"start", "stop", "reset"} }
        /\ Posted.action = "start" => mirror'.isRunning /\ mirror'.intervalId
        /\ Posted.action = "stop" => ~mirror'.isRunning /\ ~mirror'.intervalId
        /\ Posted.action = "reset" =>
             /\ ~mirror'.isRunning
             /\ ~mirror'.intervalId
             /\ mirror'.currentSeconds = getTimerDuration(timerMode) ]_vars

\* The same statement with the seconds after Reset left open.
C30_ClickPostsOnce ==
  [][ lastOp' = "mirror-click" =>
        /\ Len(toPrimary') = Len(toPrimary) + 1
        /\ SubSeq(toPrimary', 1, Len(toPrimary)) = toPrimary
        /\ Posted \in { pipControl(a) : a \in {"start", "stop", "reset"} }
        /\ Posted.action = "start" => mirror'.isRunning /\ mirror'.intervalId
        /\ Posted.action = "stop" => ~mirror'.isRunning /\ ~mirror'.intervalId
        /\ Posted.action = "reset" => ~mirror'.isRunning /\ ~mirror'.intervalId ]_vars

\* Every window opened so far was opened by the FocusMode that is mounted.
OneLifetime == pageMode = "focus" /\ owned = 1..pipCount

C31_AcrossMounts ==
  pageMode = "focus" => (isPipActive <=> pipWindowRef # 0)

\* The step delivers the pagehide of a window other than the open one that
\* the page holds.
StalePagehide ==
  /\ lastOp' = "pagehide"
  /\ pipWindowRef # 0
  /\ ~closed(pipWindowRef)
  /\ pipWindowRef \notin (pagehide \ pagehide')

\* C32: the pagehide of a window closed earlier, delivered while the page
\* holds a newer open window, leaves isPipActive and the handle as they are.
C32_StalePagehideIgnored ==
  [][ StalePagehide => UNCHANGED << isPipActive, pipWindowRef >> ]_vars

\* C34: the page applies a received control message (start, stop or reset)
\* whether or not a mirror is active: the listener looks only at the
\* message's type and action, so the step that handles start sets running,
\* the one that handles stop clears it, and the one that handles reset
\* clears it and restores the focus duration, whatever isPipActive and
\* pipWindowRef are and whoever posted the message.
C34_ControlApplied ==
  [][ /\ lastOp' = received(pipControl("start")) => running'
      /\ lastOp' = received(pipControl("stop")) => ~running'
      /\ lastOp' = received(pipControl("reset"))
           => ~running' /\ secondsLeft' = getTimerDuration("focus") ]_vars

\* C34 witness: the page has just applied a start message while no mirror
\* was ever opened (no flag, no handle, no window), and its countdown runs.
C34_Witness ==
  /\ lastOp = received(pipControl("start"))
  /\ ~isPipActive
  /\ pipWindowRef = 0
  /\ pipCount = 0
  /\ running

\* C35: in the mirror an interval is alive only while isRunning is true, and
\* at most one interval is alive at any time, after any interleaving of
\* delivered pip-update messages, rounds of the interval and button clicks.
C35_OneLoopWhileRunning ==
  /\ mirror.loops <= 1
  /\ mirror.loops > 0 => mirror.isRunning
  /\ mirror.intervalId <=> mirror.loops = 1

\* C35 witness: the mirror's Start button made an interval, a pip-update
\* with running true was then delivered, and the one interval is alive.
C35_Witness ==
  /\ lastOp = "mirror-update"
  /\ mirror.isRunning
  /\ mirror.loops = 1

\* C36: the mirror's own countdown never goes below 0; a round of its
\* interval that brings it to 0 ends the interval and clears isRunning, and
\* no round of the interval posts a message to the page or changes the
\* page's session, so the mirror alone causes no expiry on the page.
C36_MirrorStopsAtZero ==
  /\ [](mirror.currentSeconds >= 0)
  /\ [][ lastOp' = "mirror-tick"
           => /\ mirror'.currentSeconds =
                   (IF mirror.currentSeconds > 1 THEN mirror.currentSeconds - 1 ELSE 0)
              /\ mirror'.currentSeconds = 0
                   => ~mirror'.isRunning /\ ~mirror'.intervalId /\ mirror'.loops = 0
              /\ toPrimary' = toPrimary
              /\ UNCHANGED sessionState ]_vars

\* C36 witness: a round of the mirror's interval has just brought its count
\* to 0 and stopped it, while the page's countdown still runs above 0 with
\* no message on its way to the page.
C36_Witness ==
  /\ lastOp = "mirror-tick"
  /\ mirror.currentSeconds = 0
  /\ ~mirror.isRunning
  /\ mirror.loops = 0
  /\ toPrimary = << >>
  /\ running
  /\ secondsLeft > 0
  /\ timerMode = "focus"

\* The ids of the presets in the store's list.
StoredIds(st) ==
  IF st = << >> THEN {} ELSE { st[1].presets[i].id : i \in DOMAIN st[1].presets }

\* C33: with several preset operations in flight, each accepted save leaves
\* the stored list reflecting the operations accepted before it: an accepted
\* create, copy, select or edit save removes no preset from the stored list
\* (no created preset goes missing), and an accepted select, delete or edit
\* save adds none (no deleted preset reappears).
C33_AnswersKeepEachOther ==
  [][ /\ lastOp' \in {"create:ok", "copy:ok", "select:ok", "save:ok"}
           => StoredIds(userPomodoroSetting) \subseteq StoredIds(userPomodoroSetting')
      /\ lastOp' \in {"select:ok", "delete:ok", "save:ok"}
           => StoredIds(userPomodoroSetting') \subseteq StoredIds(userPomodoroSetting)
    ]_vars

\* The steps that end a handlePresetOperation call.
OperationDone == { op \o r : op \in {"create", "copy", "select", "delete"},
                              r \in {":ok", ":failed"} }

OperationFailed == { op \o ":failed" : op \in {"create", "copy", "select", "delete"} }

\* C37: every preset operation clears isOperationLoading when it finishes,
\* accepted or not; when its save fails the store's list stays as it is and
\* localSelectedPreset is the persisted selected id.
C37_FailureReverts ==
  [][ /\ lastOp' \in OperationDone => ~isOperationLoading'
      /\ lastOp' \in OperationFailed
           => /\ userPomodoroSetting' = userPomodoroSetting
              /\ storage' = storage
              /\ localSelectedPreset' =
                   timerSettingsOf(userPomodoroSetting', storage').selectedPreset
    ]_vars

\* The part of C37 that holds: the flag is cleared and the store untouched.
C37_FlagCleared ==
  [][ /\ lastOp' \in OperationDone => ~isOperationLoading'
      /\ lastOp' \in OperationFailed
           => userPomodoroSetting' = userPomodoroSetting /\ storage' = storage ]_vars

\* C38: after every accepted create, select or delete the store's selected
\* id names a preset of the store's list, and after an accepted delete of
\* the selected user preset the selected id is pomodoro-classic.
C38_SelectedIsStored ==
  [][ /\ lastOp' \in {"create:ok", "copy:ok", "select:ok", "delete:ok"}
           => userPomodoroSetting'[1].selectedPreset \in StoredIds(userPomodoroSetting')
      /\ lastOp' = "delete:ok"
           => userPomodoroSetting'[1].selectedPreset = "pomodoro-classic"
    ]_vars

\* C38 witness: the selected user preset custom-0 has just been deleted; the
\* store's list has lost it and Classic is selected.
C38_Witness ==
  /\ lastOp = "delete:ok"
  /\ "custom-0" \notin StoredIds(userPomodoroSetting)
  /\ userPomodoroSetting[1].selectedPreset = "pomodoro-classic"
  /\ localSelectedPreset = "pomodoro-classic"
  /\ HasBuiltIns(userPomodoroSetting[1].presets)

\* Every record of the list that has a built-in's id is that built-in.
BuiltInsIntact(presets) ==
  \A i \in DOMAIN presets :
    presets[i].id \in BuiltInIds => find(getDefaultPresets, presets[i].id) = { presets[i] }

\* The request that the step has just added.
Sent == pending'[Len(pending')]

\* C39: no edit changes a field of a built-in: every built-in in the stored
\* list and in every list sent to be stored is as getDefaultPresets has it;
\* Edit on a built-in makes and selects a copy whose id is no built-in's,
\* with type custom and isDefault false, appended to the list; Save replaces
\* only records with the edited id, which is no built-in's; and the
\* duration-change path sends nothing when the selected preset has
\* isDefault true and never a changed built-in.
C39_BuiltInsNeverEdited ==
  /\ [](/\ \A presets \in StoredLists : BuiltInsIntact(presets)
        /\ \A key \in {"focusDuration", "ambientDuration"}, value \in {1, 2} :
             /\ BuiltInsIntact(durationChange(key, value))
             /\ (\E q \in find(timerSettings.presets, timerSettings.selectedPreset) :
                    q.isDefault) => durationChange(key, value) = << >>)
  /\ [][ /\ lastOp' = "copy"
           => /\ editingPreset'[1].id \notin BuiltInIds
              /\ editingPreset'[1].type = "custom"
              /\ ~editingPreset'[1].isDefault
              /\ localSelectedPreset' = editingPreset'[1].id
              /\ Sent.data.selectedPreset = editingPreset'[1].id
              /\ Sent.data.presets = Append(timerSettings.presets, editingPreset'[1])
         /\ lastOp' = "save"
           => /\ editingPreset[1].id \notin BuiltInIds
              /\ DOMAIN Sent.data.presets = DOMAIN timerSettings.presets
              /\ \A i \in DOMAIN timerSettings.presets :
                   timerSettings.presets[i].id # editingPreset[1].id
                     => Sent.data.presets[i] = timerSettings.presets[i] ]_vars

\* C39 witness: Edit on Classic made a copy, its focus duration was set to 2
\* in the form and the Save was accepted: the store holds the edited copy
\* and Classic as it always was.
C39_Witness ==
  /\ lastOp = "save:ok"
  /\ \E i \in DOMAIN userPomodoroSetting[1].presets :
       LET q == userPomodoroSetting[1].presets[i]
       IN  /\ q.id \notin BuiltInIds \cup {"custom-0"}
           /\ q = [getDefaultPresets[1] EXCEPT !.id = q.id, !.type = "custom",
                                               !.isDefault = FALSE, !.focusDuration = 2]
  /\ find(userPomodoroSetting[1].presets, "pomodoro-classic") = { getDefaultPresets[1] }

\* The configured duration of the Ambient timer in seconds: the stored
\* ambientDuration in minutes, 300 when none is stored.
SpecAmbientSeconds ==
  IF storage # << >> /\ "ambientDuration" \in DOMAIN storage[1]
  THEN storage[1].ambientDuration * 60 ELSE 300

AmbientRules ==
  /\ (pageMode # "ambient" /\ pageMode' = "ambient")
       => ambient' = [running |-> FALSE, secondsLeft |-> << SpecAmbientSeconds >>,
                      ref |-> FALSE]
  /\ lastOp' = "ambient-tick"
       => /\ ambient.running /\ ambient'.running
          /\ ambient.secondsLeft # << >>
          /\ ambient'.secondsLeft =
               << IF ambient.secondsLeft[1] > 1 THEN ambient.secondsLeft[1] - 1 ELSE 0 >>
  /\ lastOp' = "ambient-reset"
       => ~ambient'.running /\ ambient'.secondsLeft = << SpecAmbientSeconds >>

\* C40: the Ambient timer is mounted with its configured duration (300
\* seconds when none is stored) and running false; a round of its interval
\* happens only while running, takes one second off, never below 0, and at
\* 0 leaves 0 with running still true; reset clears running and restores
\* the configured duration; the count is always a number that is not
\* negative.
C40_AmbientTimer ==
  /\ [](pageMode = "ambient"
          => (ambient.secondsLeft # << >> /\ ambient.secondsLeft[1] >= 0))
  /\ [][ AmbientRules ]_vars

\* The same rules for the stored items that give the initialiser a number:
\* no item, an item that is not JSON, and a record with ambientDuration.
C40_WithNumberStored ==
  /\ [](pageMode = "ambient" /\ ambientSeconds # << >>
          => (ambient.secondsLeft # << >> /\ ambient.secondsLeft[1] >= 0))
  /\ [][ ambientSeconds # << >> => AmbientRules ]_vars

====
